---------------------------- MODULE Spec2Model ----------------------------
(***************************************************************************)
(* Model of the magic-garden auto-buyer: the Session Supervisor            *)
(* (AutoBuyer.start / stop / toggle_pause), the background worker          *)
(* (AutoBuyer._run_loop) and the Shop Cycle Controller (_shop_cycle,       *)
(* _buy_all_items_in_shop_with_scroll, _buy_until_no_stock_ocr) of         *)
(* src/src/auto_buyer.py.                                                  *)
(*                                                                         *)
(* The foreground thread (GUI main loop or CLI main thread) calls the      *)
(* supervisor operations one at a time; worker threads interleave with it  *)
(* and with each other at every blocking step (sleep, capture, input).     *)
(* The screen, OCR and colour detection are the environment: what a frame  *)
(* shows is a nondeterministic choice made when the frame is captured.     *)
(***************************************************************************)
EXTENDS Integers, Sequences, FiniteSets, TLC

\* ------------------------------------------------------------------ bounds
\* Threads the foreground may launch in one behaviour (threading.Thread objects).
MaxThreads == 2
\* Supervisor operations (start, stop, toggle_pause) the foreground calls in one behaviour.
MaxCalls == 3
\* Largest number of rows one page scan can return.
MaxItems == 2
\* Cap on items_detected where workers may overlap (Spec): a scan finds a row
\* only while the cap leaves room.
MaxDetected == 1
\* Cap on items_purchased where workers may overlap (Spec): a frame shows a
\* valid buy control only below it.
MaxPurchased == 1
\* The same two caps where one worker runs alone (SpecCycle).
CycleDetected == 2
CyclePurchased == 2
\* The two caps, and the leading pages of a shop on which rows show, where
\* two workers may buy at once (SpecRace).
RaceDetected == 2
RacePurchased == 3
RacePages == 1
\* Largest number of centres find_green_buttons returns for one frame (SpecClick).
MaxButtons == 2
\* Largest configured max_buy_attempts the model draws.
MaxBuyAttempts == 2
\* The score of a perfect match, which fixes the resolution of the scores.
MaxScore == 3
\* Candidate matches handed to one duplicate suppression.
MaxMatches == 3
\* OCR tokens read off one frame.
MaxTokens == 2

\* ------------------------------------------------------- program constants
\* max_scroll_pages, auto_buyer.py line 277.
max_scroll_pages == 25
\* max_scroll_attempts, auto_buyer.py line 221.
max_scroll_attempts == 10

None == 0
NoRegion == <<>>
\* MONITOR_REGIONS["Darwin"], config.py line 8.
DarwinRegion == <<271, 87, 645, 534>>

Threads == 1..MaxThreads

VARIABLES
    config,               \* Config.data: the keys the controller reads; fixed for a run
    limits,               \* the bounds of this behaviour: threads, detected, purchased, scan_pages
    running,              \* self.running
    paused,               \* self.paused
    thread,               \* self._thread: a thread id, or None
    game_region,          \* self.game_region
    items_detected,       \* self.items_detected
    items_purchased,      \* self.items_purchased
    last_detection_time,  \* self.last_detection_time: None, or a logical clock reading
    fg,                   \* where the foreground thread is: idle, inside start(), inside stop()
    last_op,              \* the supervisor operation the foreground called last
    nthreads,             \* number of Thread objects created so far
    calls,                \* number of supervisor operations called so far
    pc,                   \* per worker: its position in _run_loop and below
    shop_type,            \* per worker: argument of _buy_all_items_in_shop_with_scroll
    page,                 \* per worker: loop variable of `for page in range(max_scroll_pages)`
    shop_items,           \* per worker: rows of the current page not yet handled
    attempt,              \* per worker: loop variable of `for attempt in range(max_attempts)`
    scroll_attempt,       \* per worker: iterations done of `for _ in range(max_scroll_attempts)`
    tmp,                  \* per worker: the value loaded by an in-flight `+= 1`
    lastlog,              \* per worker: kind of the last message it passed to _log
    checked,              \* per worker: running/paused re-read since its last blocking step
    loop_clicks,          \* per worker: buy-control clicks of the current buy-loop call
    loop_events,          \* per worker: purchase increments/events of the current buy-loop call
    marker_at,            \* per worker: loop_clicks when a frame first showed the sold-out text, or -1
    cancel_seen,          \* per worker: a flag check of its current cycle found the run cancelled
    egg_seen,             \* per worker: the frame of line 230 showed the "Open Egg Shop" button
    rows_fresh,           \* per worker: no frame captured since the scan that located its rows
    buy_clicks,           \* buy-control clicks issued since construction, by all workers
    observer_calls,       \* per observer field: the kinds of thread that have invoked it
    region,               \* one call of _buy_until_no_stock_ocr: its region argument
    item_pos,             \* one call of _buy_until_no_stock_ocr: (rel_x, rel_y) of the row
    green_buttons,        \* one call of _buy_until_no_stock_ocr: what find_green_buttons returned
    clicked,              \* one call of _buy_until_no_stock_ocr: the point last passed to pyautogui.click
    click_pc,             \* one call of _buy_until_no_stock_ocr: idle, item, attempt, bought, returned
    templates,            \* self.screen.templates: loaded name -> image (its shape)
    confidence,           \* self.screen.confidence, in score units
    files,                \* per configured template: what is at its path
    called,               \* the detector call made last, with its arguments
    returned              \* what that call returned

flags == <<running, paused>>
stats == <<items_detected, items_purchased, last_detection_time>>
supervisor == <<running, paused, thread, game_region, fg, last_op, nthreads, calls>>
locals == <<shop_type, page, shop_items, attempt, scroll_attempt, tmp>>
ghosts == <<lastlog, checked, loop_clicks, loop_events, marker_at, cancel_seen, egg_seen,
            rows_fresh, buy_clicks>>
geometry == <<region, item_pos, green_buttons, clicked, click_pc>>
detectors == <<templates, confidence, files, called, returned>>
vars == <<config, limits, running, paused, thread, game_region, items_detected,
          items_purchased, last_detection_time, fg, last_op, nthreads, calls, pc,
          shop_type, page, shop_items, attempt, scroll_attempt, tmp, lastlog,
          checked, loop_clicks, loop_events, marker_at, cancel_seen, egg_seen, rows_fresh,
          buy_clicks, observer_calls, region, item_pos, green_buttons, clicked, click_pc,
          templates, confidence, files, called, returned>>

\* ----------------------------------------------------------------- config
ShopModes == {"seed", "egg", "both"}

\* The configurations a behaviour may start from: DEFAULT_CONFIG merged with
\* a config.json that may set shop_mode, monitor_region, max_buy_attempts and
\* add an open_egg_shop template.
Configs ==
    [shop_mode : ShopModes,
     monitor_region : {NoRegion, DarwinRegion},
     max_buy_attempts : 1..MaxBuyAttempts,
     templates : {{"mythical_egg", "mythical_seed", "buy_button"},
                  {"mythical_egg", "mythical_seed", "buy_button", "open_egg_shop"}}]

\* -------------------------------------------------------------- observers
\* The observer fields of lines 73-75; gui.py lines 93-95 sets all three.
Observers == {"on_detection", "on_purchase", "on_status_change"}

\* A _log that hands its message to every observer.
LogObserversAll == Observers

\* The observers _log invokes, lines 662-663.
LogObservers == {"on_status_change"}

\* observer_calls once a thread of kind `who` ("foreground" or "worker") has
\* invoked the observers `names`.
Invoked(names, who) ==
    [o \in Observers |-> IF o \in names THEN observer_calls[o] \cup {who} ELSE observer_calls[o]]

\* observer_calls once `who` has called _log.
Logged(who) == Invoked(LogObservers, who)

\* -------------------------------------------------------------- detectors
\* Correlation scores are whole numbers of 1/MaxScore: MaxScore is 1.0, the
\* score of a pixel-identical copy, and -1 stands for any negative score.
Scores == (0 - 1)..MaxScore

\* "confidence_threshold": 0.8 of DEFAULT_CONFIG, in score units.
DefaultConfidence == (4 * MaxScore) \div 5

\* What a detector returns when it finds nothing: None, or the empty list.
NotFound == <<>>

\* Template names a search may ask for.
TemplateNames == {"buy_button", "open_egg_shop"}

\* (width, height) of the image a template file holds.
Shape(name) == IF name = "buy_button" THEN <<9, 5>> ELSE <<6, 4>>

\* What may be at the path of a template: a readable image, nothing, or a
\* file cv2.imread cannot decode.
FileStates == {"image", "missing", "unreadable"}

\* The registry once load_templates() has found every file of the
\* configuration; no detector call is followed.
DetectorsIdle ==
    /\ templates = [n \in config.templates |-> Shape(n)]
    /\ confidence = DefaultConfidence
    /\ files = [n \in config.templates |-> "image"]
    /\ called = [op |-> "none"]
    /\ returned = NotFound

\* ------------------------------------------------------------------- Init
\* AutoBuyer.__init__
InitObject ==
    /\ running = FALSE
    /\ paused = FALSE
    /\ thread = None
    /\ game_region = NoRegion
    /\ items_detected = 0
    /\ items_purchased = 0
    /\ last_detection_time = None
    /\ fg = "idle"
    /\ last_op = "none"
    /\ nthreads = 0
    /\ calls = 0
    /\ pc = [t \in Threads |-> "unstarted"]
    /\ shop_type = [t \in Threads |-> "none"]
    /\ page = [t \in Threads |-> 0]
    /\ shop_items = [t \in Threads |-> 0]
    /\ attempt = [t \in Threads |-> 0]
    /\ scroll_attempt = [t \in Threads |-> 0]
    /\ tmp = [t \in Threads |-> 0]
    /\ lastlog = [t \in Threads |-> "none"]
    /\ checked = [t \in Threads |-> FALSE]
    /\ loop_clicks = [t \in Threads |-> 0]
    /\ loop_events = [t \in Threads |-> 0]
    /\ marker_at = [t \in Threads |-> -1]
    /\ cancel_seen = [t \in Threads |-> FALSE]
    /\ egg_seen = [t \in Threads |-> FALSE]
    /\ rows_fresh = [t \in Threads |-> FALSE]
    /\ buy_clicks = 0
    /\ observer_calls = [o \in Observers |-> {}]

\* No call of _buy_until_no_stock_ocr is followed point by point.
GeometryIdle ==
    /\ region = NoRegion
    /\ item_pos = <<0, 0>>
    /\ green_buttons = <<>>
    /\ clicked = <<>>
    /\ click_pc = "idle"

\* A configuration that enables every step of a shop cycle.
FullConfig ==
    [shop_mode |-> "both", monitor_region |-> DarwinRegion, max_buy_attempts |-> MaxBuyAttempts,
     templates |-> {"mythical_egg", "mythical_seed", "buy_button", "open_egg_shop"}]

\* Spec: one configuration; the foreground may stop and start again, so up to
\* MaxThreads workers exist.
Init ==
    /\ config = FullConfig
    /\ limits = [threads |-> MaxThreads, detected |-> MaxDetected, purchased |-> MaxPurchased,
                 scan_pages |-> max_scroll_pages]
    /\ InitObject
    /\ GeometryIdle
    /\ DetectorsIdle

\* SpecCycle: every configuration; the foreground starts one worker.
InitCycle ==
    /\ config \in Configs
    /\ limits = [threads |-> 1, detected |-> CycleDetected, purchased |-> CyclePurchased,
                 scan_pages |-> max_scroll_pages]
    /\ InitObject
    /\ GeometryIdle
    /\ DetectorsIdle

\* ------------------------------------------------------------- supervisor
\* Steps of a worker inside _buy_until_no_stock_ocr.
BuyLoopSteps == {"item_click", "item_count", "attempt", "buy_click", "buy_count"}

\* Steps of a worker inside _shop_cycle.
CycleSteps == {"focus", "teleport", "open_shop", "page", "item", "scroll", "after_buy",
               "egg_search", "egg_open"} \cup BuyLoopSteps

\* The foreground is between operations and may call one more.
CanCall == fg = "idle" /\ calls < MaxCalls

\* start() without its guard: it never returns early.
AlreadyRunningIgnored == FALSE

\* `if self.running: return`, start() line 93.
AlreadyRunning == running

\* start() without `self.paused = False`: the flag keeps its value.
StartPausedKept == paused

\* The value start() gives self.paused, line 97.
StartPaused == FALSE

\* start() resetting the counters and the timestamp as __init__ does.
StartStatsReset == <<0, 0, None>>

\* The stats start() leaves behind: it assigns none of them (lines 91-115).
StartStats == stats

\* start() while running: returns at line 94.
StartNoop ==
    /\ CanCall
    /\ AlreadyRunning
    /\ last_op' = "start_noop"
    /\ calls' = calls + 1
    /\ UNCHANGED <<config, limits, geometry, detectors, running, paused, thread, game_region, stats, fg,
                   nthreads, pc, locals, ghosts, observer_calls>>

\* start() lines 96-113: sets the flags and the region, logs it, creates and
\* starts the worker thread; the foreground then sleeps the startup delay.
StartCall ==
    /\ CanCall
    /\ ~AlreadyRunning
    /\ nthreads < limits.threads
    /\ calls' = calls + 1
    /\ running' = TRUE
    /\ paused' = StartPaused
    /\ game_region' = config.monitor_region
    /\ nthreads' = nthreads + 1
    /\ thread' = nthreads + 1
    /\ pc' = [pc EXCEPT ![nthreads + 1] = "loop"]
    /\ items_detected' = StartStats[1]
    /\ items_purchased' = StartStats[2]
    /\ last_detection_time' = StartStats[3]
    /\ fg' = "start_sleep"
    /\ last_op' = "start"
    /\ observer_calls' = Logged("foreground")
    /\ UNCHANGED <<config, limits, geometry, detectors, locals, ghosts>>

\* start() lines 109-115: the startup delay elapses, "Auto-buyer started".
StartReturn ==
    /\ fg = "start_sleep"
    /\ fg' = "idle"
    /\ observer_calls' = Logged("foreground")
    /\ UNCHANGED <<config, limits, geometry, detectors, running, paused, thread, game_region, stats,
                   last_op, nthreads, calls, pc, locals, ghosts>>

\* stop() lines 155-156: clears running, then joins the worker if there is one.
StopCall ==
    /\ CanCall
    /\ running' = FALSE
    /\ fg' = IF thread # None THEN "stop_join" ELSE "idle"
    /\ last_op' = "stop"
    /\ calls' = calls + 1
    /\ observer_calls' = IF thread # None THEN observer_calls ELSE Logged("foreground")
    /\ UNCHANGED <<config, limits, geometry, detectors, paused, thread, game_region, stats, nthreads, pc,
                   locals, ghosts>>

\* join(timeout=2.0), line 157, returns when the worker has ended, or when two
\* seconds have passed: that takes a worker inside a shop cycle (its sleeps,
\* captures and OCR passes) or inside the sleep of the scan interval; a worker
\* at the loop test ends at once.
JoinReturns == pc[thread] = "dead" \/ pc[thread] \in CycleSteps \cup {"interval"}

\* stop() lines 157-159: join(timeout=2.0) returns and _thread is cleared,
\* whether or not the worker has ended.
StopReturn ==
    /\ fg = "stop_join"
    /\ JoinReturns
    /\ thread' = None
    /\ fg' = "idle"
    /\ observer_calls' = Logged("foreground")
    /\ UNCHANGED <<config, limits, geometry, detectors, running, paused, game_region, stats, last_op,
                   nthreads, calls, pc, locals, ghosts>>

\* toggle_pause() lines 163-165.
TogglePause ==
    /\ CanCall
    /\ paused' = ~paused
    /\ last_op' = "toggle_pause"
    /\ calls' = calls + 1
    /\ observer_calls' = Logged("foreground")
    /\ UNCHANGED <<config, limits, geometry, detectors, running, thread, game_region, stats, fg, nthreads,
                   pc, locals, ghosts>>

\* ----------------------------------------------------------------- worker
Set(f, t, v) == [f EXCEPT ![t] = v]

\* `not self.running or self.paused`, lines 290, 305 and 433.
Cancelled == ~running \/ paused

\* A run loop that also keeps going while paused is set.
LoopRunningOrPaused == running \/ paused

\* `while self.running`, line 172.
LoopRunning == running

\* A run loop without its pause test.
LoopPausedIgnored == FALSE

\* `if self.paused`, line 173.
LoopPaused == paused

\* `shop_mode in ("seed", "both")`, line 214.
SeedEnabled == config.shop_mode \in {"seed", "both"}

\* `shop_mode in ("egg", "both")`, line 219.
EggEnabled == config.shop_mode \in {"egg", "both"}

\* Where _shop_cycle goes after the navigation keys, lines 213-237.
AfterNavigation == IF SeedEnabled THEN "page" ELSE IF EggEnabled THEN "egg_search" ELSE "interval"

\* Where _shop_cycle goes when _buy_all_items_in_shop_with_scroll returns.
AfterShop(t) == IF shop_type[t] = "seed" /\ EggEnabled THEN "egg_search" ELSE "interval"

\* A shop cycle that picks up at the page scan instead of navigating.
CycleEntryAtPage(t) == "page"

\* The first step of _shop_cycle(region), called at line 178: the focus
\* click with a region (line 196), else the teleport hotkey (line 204).
CycleEntry(t) == IF game_region # NoRegion THEN "focus" ELSE "teleport"

\* _run_loop lines 172-178 and _shop_cycle lines 186-193: the loop test, the
\* pause test (sleep 0.1 and test again) and the entry into a shop cycle.
RunLoop(t) ==
    /\ pc[t] = "loop"
    /\ IF ~LoopRunning
         THEN /\ pc' = Set(pc, t, "dead")
              /\ UNCHANGED <<lastlog, observer_calls, cancel_seen>>
         ELSE IF LoopPaused
         THEN UNCHANGED <<pc, lastlog, observer_calls, cancel_seen>>
         ELSE /\ pc' = Set(pc, t, CycleEntry(t))
              /\ lastlog' = Set(lastlog, t, "cycle_start")
              /\ observer_calls' = Logged("worker")
              /\ cancel_seen' = Set(cancel_seen, t, FALSE)
    /\ checked' = Set(checked, t, TRUE)
    /\ UNCHANGED <<config, limits, geometry, detectors, supervisor, egg_seen, rows_fresh, buy_clicks, stats, locals, loop_clicks, loop_events, marker_at>>

\* _shop_cycle lines 196-201: click the region centre to focus the game.
Focus(t) ==
    /\ pc[t] = "focus"
    /\ pc' = Set(pc, t, "teleport")
    /\ lastlog' = Set(lastlog, t, "focus")
    /\ observer_calls' = Logged("worker")
    /\ checked' = Set(checked, t, FALSE)
    /\ UNCHANGED <<config, limits, geometry, detectors, supervisor, egg_seen, rows_fresh, buy_clicks, stats, locals, loop_clicks, loop_events, marker_at, cancel_seen>>

\* _shop_cycle lines 204-206: Shift+1 teleports to the shop.
Teleport(t) ==
    /\ pc[t] = "teleport"
    /\ pc' = Set(pc, t, "open_shop")
    /\ lastlog' = Set(lastlog, t, "teleport")
    /\ observer_calls' = Logged("worker")
    /\ checked' = Set(checked, t, FALSE)
    /\ UNCHANGED <<config, limits, geometry, detectors, supervisor, egg_seen, rows_fresh, buy_clicks, stats, locals, loop_clicks, loop_events, marker_at, cancel_seen>>

\* _shop_cycle lines 209-219: space opens the seed shop; then the seed scan,
\* the egg part or the end of the cycle, by shop_mode.
OpenShop(t) ==
    /\ pc[t] = "open_shop"
    /\ pc' = Set(pc, t, AfterNavigation)
    /\ shop_type' = Set(shop_type, t, IF SeedEnabled THEN "seed" ELSE "none")
    /\ lastlog' = Set(lastlog, t, IF AfterNavigation = "interval" THEN "cycle_complete" ELSE "open_shop")
    /\ observer_calls' = Logged("worker")
    /\ checked' = Set(checked, t, FALSE)
    /\ UNCHANGED <<config, limits, geometry, detectors, supervisor, egg_seen, rows_fresh, buy_clicks, stats, page, shop_items, attempt, scroll_attempt, tmp,
                   loop_clicks, loop_events, marker_at, cancel_seen>>

\* ------------------------------------------------------------ environment
RECURSIVE SumOver(_, _)
SumOver(f, S) == IF S = {} THEN 0 ELSE LET x == CHOOSE y \in S : TRUE IN f[x] + SumOver(f, S \ {x})

\* Row counts a page scan (find_shop_items_with_stock, line 299) may return:
\* any number up to MaxItems that keeps items_detected within the cap of the
\* behaviour, and none beyond the pages on which the behaviour shows rows.
ScanResults(t) ==
    {n \in 0..MaxItems :
        /\ items_detected + SumOver(shop_items, Threads) + n <= limits.detected
        /\ n > 0 => page[t] < limits.scan_pages}

\* What find_green_buttons and the position filter (lines 439-453) may yield
\* for a frame: no green button, green buttons none of which passes the
\* filter, or at least one valid button (only while the buy clicks made and
\* about to be made stay below the cap of the behaviour).
ButtonResults ==
    {"none", "invalid"} \cup
    (IF buy_clicks + Cardinality({u \in Threads : pc[u] = "buy_click"}) < limits.purchased
     THEN {"valid"} ELSE {})

\* find_template(screen, name) as a truth value, screen_capture.py lines
\* 65-94: None when the name is not in the template registry (lines 71-74),
\* else whether the image is matched in the frame with enough confidence.
FindTemplate(name, visible) == name \in config.templates /\ visible

\* ------------------------------------------------------- pagination loop
\* `return` out of _buy_all_items_in_shop_with_scroll (lines 291, 306) or the
\* end of its page loop: back in _shop_cycle, lines 218-237.
LeaveShop(t) ==
    /\ pc' = Set(pc, t, AfterShop(t))
    /\ shop_type' = Set(shop_type, t, "none")
    /\ page' = Set(page, t, 0)
    /\ shop_items' = Set(shop_items, t, 0)

\* A page loop that gives up one page early.
MorePagesOneShort(t) == page[t] + 2 < max_scroll_pages

\* `for page in range(max_scroll_pages)`: whether another page follows.
MorePages(t) == page[t] + 1 < max_scroll_pages

\* Lines 289-302: the flag check at the top of a page, then capture and scan.
PageScan(t) ==
    /\ pc[t] = "page"
    /\ checked' = Set(checked, t, TRUE)
    /\ IF Cancelled
         THEN /\ LeaveShop(t)
              /\ cancel_seen' = Set(cancel_seen, t, TRUE)
              /\ lastlog' = Set(lastlog, t, IF AfterShop(t) = "interval" THEN "cycle_complete" ELSE lastlog[t])
              /\ observer_calls' = IF AfterShop(t) = "interval" THEN Logged("worker") ELSE observer_calls
         ELSE /\ \E n \in ScanResults(t) :
                    /\ shop_items' = Set(shop_items, t, n)
                    /\ pc' = Set(pc, t, IF n = 0 THEN "scroll" ELSE "item")
                    /\ lastlog' = Set(lastlog, t, IF n = 0 THEN "scan_page" ELSE "found_items")
                    /\ observer_calls' = Logged("worker")
              /\ UNCHANGED <<shop_type, page, cancel_seen>>
    /\ rows_fresh' = Set(rows_fresh, t, ~Cancelled)
    /\ UNCHANGED <<config, limits, geometry, detectors, supervisor, egg_seen, buy_clicks, stats, attempt, scroll_attempt, tmp,
                   loop_clicks, loop_events, marker_at>>

\* Lines 304-308: the flag check before each found row.
Item(t) ==
    /\ pc[t] = "item"
    /\ checked' = Set(checked, t, TRUE)
    /\ IF Cancelled
         THEN /\ LeaveShop(t)
              /\ cancel_seen' = Set(cancel_seen, t, TRUE)
              /\ lastlog' = Set(lastlog, t, IF AfterShop(t) = "interval" THEN "cycle_complete" ELSE lastlog[t])
              /\ observer_calls' = IF AfterShop(t) = "interval" THEN Logged("worker") ELSE observer_calls
         ELSE /\ pc' = Set(pc, t, "item_click")
              /\ lastlog' = Set(lastlog, t, "buying")
              /\ observer_calls' = Logged("worker")
              /\ UNCHANGED <<shop_type, page, shop_items, cancel_seen>>
    /\ rows_fresh' = Set(rows_fresh, t, rows_fresh[t] /\ ~Cancelled)
    /\ UNCHANGED <<config, limits, geometry, detectors, supervisor, egg_seen, buy_clicks, stats, attempt, scroll_attempt, tmp,
                   loop_clicks, loop_events, marker_at>>

\* Lines 315-325: move to the region centre, scroll down, sleep; next page.
Scroll(t) ==
    /\ pc[t] = "scroll"
    /\ checked' = Set(checked, t, FALSE)
    /\ IF MorePages(t)
         THEN /\ page' = Set(page, t, page[t] + 1)
              /\ pc' = Set(pc, t, "page")
              /\ lastlog' = Set(lastlog, t, "scrolled")
              /\ observer_calls' = Logged("worker")
              /\ UNCHANGED <<shop_type, shop_items>>
         ELSE /\ LeaveShop(t)
              /\ lastlog' = Set(lastlog, t, IF AfterShop(t) = "interval" THEN "cycle_complete" ELSE "scrolled")
              /\ observer_calls' = Logged("worker")
    /\ rows_fresh' = Set(rows_fresh, t, FALSE)
    /\ UNCHANGED <<config, limits, geometry, detectors, supervisor, egg_seen, buy_clicks, stats, attempt, scroll_attempt, tmp,
                   loop_clicks, loop_events, marker_at, cancel_seen>>

\* ----------------------------------------------------- per-item buy loop
\* _buy_until_no_stock_ocr lines 407-423: click the row, and load
\* items_detected for the increment of line 424.
ItemClick(t) ==
    /\ pc[t] = "item_click"
    /\ pc' = Set(pc, t, "item_count")
    /\ tmp' = Set(tmp, t, items_detected)
    /\ lastlog' = Set(lastlog, t, "clicking_item")
    /\ observer_calls' = Logged("worker")
    /\ checked' = Set(checked, t, FALSE)
    /\ UNCHANGED <<config, limits, geometry, detectors, supervisor, egg_seen, rows_fresh, buy_clicks, stats, shop_type, page, shop_items, attempt,
                   scroll_attempt, loop_clicks, loop_events, marker_at, cancel_seen>>

\* Lines 424-429: store items_detected, stamp last_detection_time (time.time()
\* as a clock that has moved on since the last stamp), sleep, on_detection.
ItemCount(t) ==
    /\ pc[t] = "item_count"
    /\ items_detected' = tmp[t] + 1
    /\ last_detection_time' = last_detection_time + 1
    /\ pc' = Set(pc, t, "attempt")
    /\ attempt' = Set(attempt, t, 0)
    /\ tmp' = Set(tmp, t, 0)
    /\ observer_calls' = Invoked({"on_detection"}, "worker")
    /\ UNCHANGED <<config, limits, geometry, detectors, supervisor, items_purchased, shop_type, page, shop_items,
                   scroll_attempt, ghosts>>

\* The attempt loop with an off-by-one bound: one iteration too many.
AttemptsExhaustedOffByOne(t) == attempt[t] > config.max_buy_attempts

\* `for attempt in range(max_attempts)`, line 432: the loop has run out.
AttemptsExhausted(t) == attempt[t] >= config.max_buy_attempts

\* `return` out of _buy_until_no_stock_ocr: back at line 312.
LeaveBuyLoop(t) ==
    /\ pc' = Set(pc, t, "after_buy")
    /\ attempt' = Set(attempt, t, 0)

\* Lines 432-485 up to the click: the end of the attempt loop with its
\* warning, or the flag check, the capture and the search for a buy control.
Attempt(t) ==
    /\ pc[t] = "attempt"
    /\ IF AttemptsExhausted(t)
         THEN /\ LeaveBuyLoop(t)
              /\ lastlog' = Set(lastlog, t, "max_attempts")
              /\ observer_calls' = Logged("worker")
              /\ UNCHANGED <<checked, marker_at, cancel_seen>>
         ELSE IF Cancelled
         THEN /\ LeaveBuyLoop(t)
              /\ checked' = Set(checked, t, TRUE)
              /\ cancel_seen' = Set(cancel_seen, t, TRUE)
              /\ UNCHANGED <<lastlog, observer_calls, marker_at>>
         ELSE /\ checked' = Set(checked, t, TRUE)
              /\ \E marker \in BOOLEAN, buttons \in ButtonResults :
                    /\ marker_at' = Set(marker_at, t,
                                        IF marker /\ marker_at[t] = -1 THEN loop_clicks[t] ELSE marker_at[t])
                    /\ IF buttons = "valid"
                         THEN /\ pc' = Set(pc, t, "buy_click")
                              /\ lastlog' = Set(lastlog, t, "clicking_buy")
                              /\ observer_calls' = Logged("worker")
                              /\ UNCHANGED attempt
                         ELSE /\ LeaveBuyLoop(t)
                              /\ lastlog' = Set(lastlog, t, IF buttons = "none" THEN "no_green_buttons"
                                                                                  ELSE "no_buy_button")
                              /\ observer_calls' = Logged("worker")
              /\ UNCHANGED cancel_seen
    /\ rows_fresh' = Set(rows_fresh, t, rows_fresh[t] /\ (AttemptsExhausted(t) \/ Cancelled))
    /\ UNCHANGED <<config, limits, geometry, detectors, supervisor, egg_seen, buy_clicks, stats, shop_type, page, shop_items, scroll_attempt,
                   tmp, loop_clicks, loop_events>>

\* Lines 468-469: click the buy control, and load items_purchased.
BuyClick(t) ==
    /\ pc[t] = "buy_click"
    /\ pc' = Set(pc, t, "buy_count")
    /\ tmp' = Set(tmp, t, items_purchased)
    /\ loop_clicks' = Set(loop_clicks, t, loop_clicks[t] + 1)
    /\ checked' = Set(checked, t, FALSE)
    /\ buy_clicks' = buy_clicks + 1
    /\ UNCHANGED <<config, limits, geometry, detectors, supervisor, egg_seen, rows_fresh, stats, shop_type, page, shop_items, attempt,
                   scroll_attempt, lastlog, observer_calls, loop_events, marker_at, cancel_seen>>

\* Lines 469-475: store items_purchased, log, on_purchase, sleep; next attempt.
BuyCount(t) ==
    /\ pc[t] = "buy_count"
    /\ items_purchased' = tmp[t] + 1
    /\ pc' = Set(pc, t, "attempt")
    /\ attempt' = Set(attempt, t, attempt[t] + 1)
    /\ tmp' = Set(tmp, t, 0)
    /\ lastlog' = Set(lastlog, t, "purchased")
    /\ observer_calls' = Invoked(LogObservers \cup {"on_purchase"}, "worker")
    /\ loop_events' = Set(loop_events, t, loop_events[t] + 1)
    /\ UNCHANGED <<config, limits, geometry, detectors, supervisor, egg_seen, rows_fresh, buy_clicks, items_detected, last_detection_time, shop_type, page,
                   shop_items, scroll_attempt, checked, loop_clicks, marker_at, cancel_seen>>

\* Line 312 and the step of `for target, rel_x, rel_y in shop_items`:
\* re-capture after the buy loop, then the next row or the scroll.
\* An item loop that drops the rows left on the page.
NextRowSkipped(t) == "scroll"

\* The step of `for target, rel_x, rel_y in shop_items`, line 304: the next
\* row if one is left, else the scroll of lines 315-325.
NextRow(t) == IF shop_items[t] - 1 = 0 THEN "scroll" ELSE "item"

AfterBuy(t) ==
    /\ pc[t] = "after_buy"
    /\ shop_items' = Set(shop_items, t, shop_items[t] - 1)
    /\ pc' = Set(pc, t, NextRow(t))
    /\ loop_clicks' = Set(loop_clicks, t, 0)
    /\ loop_events' = Set(loop_events, t, 0)
    /\ marker_at' = Set(marker_at, t, -1)
    /\ rows_fresh' = Set(rows_fresh, t, FALSE)
    /\ UNCHANGED <<config, limits, geometry, detectors, supervisor, egg_seen, buy_clicks, stats, shop_type, page, attempt, scroll_attempt, tmp,
                   lastlog, observer_calls, checked, cancel_seen>>

\* ------------------------------------------------------------- egg shop
\* A search for the egg-shop button that goes on until the button shows.
MoreSearchUnbounded(t) == TRUE

\* `for _ in range(max_scroll_attempts)`: whether another search step follows.
MoreSearch(t) == scroll_attempt[t] + 1 < max_scroll_attempts

\* Lines 222-227: capture, look for the "Open Egg Shop" button, else press up.
EggSearch(t) ==
    /\ pc[t] = "egg_search"
    /\ \E visible \in BOOLEAN :
          IF FindTemplate("open_egg_shop", visible)
            THEN /\ pc' = Set(pc, t, "egg_open")
                 /\ scroll_attempt' = Set(scroll_attempt, t, 0)
                 /\ UNCHANGED <<lastlog, observer_calls, checked>>
            ELSE /\ lastlog' = Set(lastlog, t, "pressed_up")
                 /\ observer_calls' = Logged("worker")
                 /\ checked' = Set(checked, t, FALSE)
                 /\ IF MoreSearch(t)
                      THEN /\ scroll_attempt' = Set(scroll_attempt, t, scroll_attempt[t] + 1)
                           /\ UNCHANGED pc
                      ELSE /\ scroll_attempt' = Set(scroll_attempt, t, 0)
                           /\ pc' = Set(pc, t, "egg_open")
    /\ UNCHANGED <<config, limits, geometry, detectors, supervisor, egg_seen, rows_fresh, buy_clicks, stats, shop_type, page, shop_items, attempt, tmp,
                   loop_clicks, loop_events, marker_at, cancel_seen>>

\* Lines 230-237: capture again; with the button in view press space and scan
\* the egg shop, otherwise the cycle is complete.
EggOpen(t) ==
    /\ pc[t] = "egg_open"
    /\ \E visible \in BOOLEAN :
          /\ egg_seen' = Set(egg_seen, t, visible)
          /\ IF FindTemplate("open_egg_shop", visible)
            THEN /\ pc' = Set(pc, t, "page")
                 /\ shop_type' = Set(shop_type, t, "egg")
                 /\ lastlog' = Set(lastlog, t, "open_egg_shop")
                 /\ observer_calls' = Logged("worker")
                 /\ checked' = Set(checked, t, FALSE)
            ELSE /\ pc' = Set(pc, t, "interval")
                 /\ lastlog' = Set(lastlog, t, "cycle_complete")
                 /\ observer_calls' = Logged("worker")
                 /\ UNCHANGED <<shop_type, checked>>
    /\ UNCHANGED <<config, limits, geometry, detectors, supervisor, rows_fresh, buy_clicks, stats, page, shop_items, attempt, scroll_attempt, tmp,
                   loop_clicks, loop_events, marker_at, cancel_seen>>

\* ------------------------------------------------------- run loop, again
\* _run_loop line 182: sleep the scan interval, then test the loop again.
Interval(t) ==
    /\ pc[t] = "interval"
    /\ pc' = Set(pc, t, "loop")
    /\ checked' = Set(checked, t, FALSE)
    /\ egg_seen' = Set(egg_seen, t, FALSE)
    /\ UNCHANGED <<config, limits, geometry, detectors, supervisor, rows_fresh, buy_clicks, stats, locals, lastlog, observer_calls, loop_clicks, loop_events,
                   marker_at, cancel_seen>>

\* The steps of a shop cycle that call pyautogui, the screen capture or the
\* detectors, any of which may raise (pyautogui.FAILSAFE is on, line 31).
RaisingSteps == {"focus", "teleport", "open_shop", "page", "item_click", "attempt", "buy_click",
                 "after_buy", "scroll", "egg_search", "egg_open"}

\* A run loop without its try/except: the exception ends the thread.
AfterRaiseUncaught == "dead"

\* Where the worker is after `except Exception`, lines 179-180: at the sleep
\* of line 182, still inside `while self.running`.
AfterRaise == "interval"

\* An exception handler that also gives up the run.
RunningAfterRaiseCleared == FALSE

\* self.running after the handler of lines 179-180, which assigns nothing.
RunningAfterRaise == running

\* _run_loop lines 177-180: an exception inside _shop_cycle is caught and
\* logged; the worker goes on to the sleep of line 182.
Raise(t) ==
    /\ pc[t] \in RaisingSteps
    /\ pc' = Set(pc, t, AfterRaise)
    /\ shop_type' = Set(shop_type, t, "none")
    /\ page' = Set(page, t, 0)
    /\ shop_items' = Set(shop_items, t, 0)
    /\ attempt' = Set(attempt, t, 0)
    /\ scroll_attempt' = Set(scroll_attempt, t, 0)
    /\ lastlog' = Set(lastlog, t, "error")
    /\ observer_calls' = Logged("worker")
    /\ loop_clicks' = Set(loop_clicks, t, 0)
    /\ loop_events' = Set(loop_events, t, 0)
    /\ marker_at' = Set(marker_at, t, -1)
    /\ egg_seen' = Set(egg_seen, t, FALSE)
    /\ rows_fresh' = Set(rows_fresh, t, FALSE)
    /\ running' = RunningAfterRaise
    /\ UNCHANGED <<config, limits, geometry, detectors, paused, thread, game_region, fg, last_op, nthreads, calls,
                   buy_clicks, stats, tmp, checked, cancel_seen>>

\* ------------------------------------------------------------------ Next
Foreground == StartNoop \/ StartCall \/ StartReturn \/ StopCall \/ StopReturn \/ TogglePause

Worker(t) ==
    \/ RunLoop(t) \/ Focus(t) \/ Teleport(t) \/ OpenShop(t)
    \/ PageScan(t) \/ Item(t) \/ Scroll(t)
    \/ ItemClick(t) \/ ItemCount(t) \/ Attempt(t) \/ BuyClick(t) \/ BuyCount(t) \/ AfterBuy(t)
    \/ EggSearch(t) \/ EggOpen(t) \/ Interval(t) \/ Raise(t)

Next == Foreground \/ \E t \in Threads : Worker(t)

Spec == Init /\ [][Next]_vars

SpecCycle == InitCycle /\ [][Next]_vars

\* SpecRace: two workers that may both be buying, as after a stop() whose join
\* timed out and a second start(); rows with stock show on the first page of
\* a shop only.
InitRace ==
    /\ config = FullConfig
    /\ limits = [threads |-> MaxThreads, detected |-> RaceDetected, purchased |-> RacePurchased,
                 scan_pages |-> RacePages]
    /\ InitObject
    /\ GeometryIdle
    /\ DetectorsIdle

SpecRace == InitRace /\ [][Next]_vars

\* FairSpec: one worker under the full configuration; the scheduler lets every
\* live thread run again and again, and a join that can return does return.
\* The foreground is free to call nothing more.
InitFair ==
    /\ config = FullConfig
    /\ limits = [threads |-> 1, detected |-> MaxDetected, purchased |-> MaxPurchased,
                 scan_pages |-> max_scroll_pages]
    /\ InitObject
    /\ GeometryIdle
    /\ DetectorsIdle

FairSpec ==
    /\ InitFair
    /\ [][Next]_vars
    /\ \A t \in Threads : WF_vars(Worker(t))
    /\ WF_vars(StopReturn)

\* FairCycleSpec: FairSpec with room for two rows and two buy clicks, so that a
\* buy loop can run to its cap.
InitFairCycle ==
    /\ config = FullConfig
    /\ limits = [threads |-> 1, detected |-> CycleDetected, purchased |-> CyclePurchased,
                 scan_pages |-> max_scroll_pages]
    /\ InitObject
    /\ GeometryIdle
    /\ DetectorsIdle

FairCycleSpec ==
    /\ InitFairCycle
    /\ [][Next]_vars
    /\ \A t \in Threads : WF_vars(Worker(t))
    /\ WF_vars(StopReturn)

\* --------------------------------------------- the points that are clicked
\* MONITOR_REGIONS["Windows"], config.py line 9.
WindowsRegion == <<402, 57, 1638, 1053>>

\* The region a call may be given: none, or (left, top, width, height).
Regions == {NoRegion, DarwinRegion, WindowsRegion}

\* The Mac baseline height of line 444, and the reaches of lines 445-446.
BaselineHeight == 534
YReach == 150
XReach == 200

Abs(n) == IF n < 0 THEN -n ELSE n

\* Lines 444-445: int(150 * scale), scale = region[3] / 534 with a region and
\* 1.0 without; the float product truncates to the integer quotient for
\* every height up to 20000.
max_y_dist(r) == IF r # NoRegion THEN (YReach * r[4]) \div BaselineHeight ELSE YReach

\* Lines 444-446: int(200 * scale).
max_x_dist(r) == IF r # NoRegion THEN (XReach * r[4]) \div BaselineHeight ELSE XReach

\* A click at the frame-local point itself.
ToAbsoluteUntranslated(pos, r) == pos

\* Lines 416-420 and 461-465: frame-local to screen-absolute.
ToAbsolute(pos, r) == IF r # NoRegion THEN <<pos[1] + r[1], pos[2] + r[2]>> ELSE pos

\* The condition of the list comprehension, lines 451-453.
IsValidButton(b, item, r) ==
    /\ b[2] > item[2]
    /\ b[2] < item[2] + max_y_dist(r)
    /\ Abs(b[1] - item[1]) < max_x_dist(r)

\* valid_buttons, lines 451-453: the buttons that pass, in their order.
valid_buttons(buttons, item, r) == SelectSeq(buttons, LAMBDA b : IsValidButton(b, item, r))

\* A choice that takes the first valid button, whatever its offset.
FirstButton(valid, item) == valid[1]

\* min(valid_buttons, key=lambda b: abs(b[1] - rel_y)), line 458: the first
\* button of the list with the least vertical offset.
best_button(valid, item) ==
    LET key(b) == Abs(b[2] - item[2])
        i == CHOOSE i \in 1..Len(valid) :
                 /\ \A j \in 1..Len(valid) : key(valid[i]) <= key(valid[j])
                 /\ \A j \in 1..(i - 1) : key(valid[j]) > key(valid[i])
    IN  valid[i]

\* The rows a scan may locate, and the button centres find_green_buttons may
\* return for them: on, just inside and just outside each edge of the window.
ItemPositions == {<<300, 200>>}
ButtonOffsets == {-200, -199, 0, 393, 394} \X {-10, 0, 1, 149, 150, 294, 295}
ButtonPositions(item) == {<<item[1] + d[1], item[2] + d[2]>> : d \in ButtonOffsets}
ButtonLists(item) == UNION {[1..n -> ButtonPositions(item)] : n \in 0..MaxButtons}

\* SpecClick: one call of _buy_until_no_stock_ocr(target, region, item_pos)
\* up to its first buy click, for every region, row and list of buttons.
InitClick ==
    /\ config = FullConfig
    /\ limits = [threads |-> 1, detected |-> MaxDetected, purchased |-> MaxPurchased,
                 scan_pages |-> max_scroll_pages]
    /\ InitObject
    /\ DetectorsIdle
    /\ region \in Regions
    /\ item_pos \in ItemPositions
    /\ green_buttons \in ButtonLists(item_pos)
    /\ clicked = <<>>
    /\ click_pc = "item"

\* Lines 416-423: translate the row's position and click it.
ClickItem ==
    /\ click_pc = "item"
    /\ clicked' = ToAbsolute(item_pos, region)
    /\ click_pc' = "attempt"
    /\ UNCHANGED <<config, limits, detectors, supervisor, stats, pc, locals, ghosts, observer_calls, region, item_pos,
                   green_buttons>>

\* Lines 441-483: filter the green buttons; click the best valid one (468),
\* or return when there is none (479, 483).
ClickBuy ==
    /\ click_pc = "attempt"
    /\ LET valid == valid_buttons(green_buttons, item_pos, region)
       IN  IF green_buttons # <<>> /\ valid # <<>>
             THEN /\ clicked' = ToAbsolute(best_button(valid, item_pos), region)
                  /\ click_pc' = "bought"
             ELSE /\ click_pc' = "returned"
                  /\ UNCHANGED clicked
    /\ UNCHANGED <<config, limits, detectors, supervisor, stats, pc, locals, ghosts, observer_calls, region, item_pos,
                   green_buttons>>

NextClick == ClickItem \/ ClickBuy

SpecClick == InitClick /\ [][NextClick]_vars

\* ------------------------------------------------------ template matcher
\* A load that registers whatever is at the path.
LoadableAlways(state) == TRUE

\* load_template lines 39-47: the path exists and cv2.imread decodes it.
Loadable(state) == state = "image"

\* self.templates after load_template(name, path), lines 37-50.
AfterLoad(reg, name) ==
    IF Loadable(files[name])
      THEN [n \in DOMAIN reg \cup {name} |-> IF n = name THEN Shape(name) ELSE reg[n]]
      ELSE reg

\* No search has been made yet: a behaviour follows the loads and one search.
NoSearchYet == called.op \in {"none", "load_template", "load_templates"}

\* ScreenCapture.load_template(name, path).
LoadTemplate ==
    /\ NoSearchYet
    /\ \E name \in config.templates :
          /\ templates' = AfterLoad(templates, name)
          /\ returned' = Loadable(files[name])
          /\ called' = [op |-> "load_template", name |-> name, before |-> templates]
    /\ UNCHANGED <<config, limits, geometry, confidence, files, supervisor, stats, pc, locals,
                   ghosts, observer_calls>>

\* AutoBuyer.load_templates(), lines 77-89: load_template for every entry of
\* the configuration, a log line for each, and the conjunction of the results.
LoadTemplates ==
    /\ NoSearchYet
    /\ templates' = [n \in DOMAIN templates \cup {m \in config.templates : Loadable(files[m])} |->
                        IF n \in config.templates /\ Loadable(files[n]) THEN Shape(n) ELSE templates[n]]
    /\ returned' = \A n \in config.templates : Loadable(files[n])
    /\ called' = [op |-> "load_templates", before |-> templates]
    /\ observer_calls' = Logged("foreground")
    /\ UNCHANGED <<config, limits, geometry, confidence, files, supervisor, stats, pc, locals,
                   ghosts>>

\* The offsets of a correlation result, in the row-major order of np.where,
\* and what a frame holds there: one score for each offset.
Offsets == << <<0, 0>>, <<20, 0>>, <<12, 16>> >>
Frames == [DOMAIN Offsets -> Scores]

\* A threshold test that leaves the boundary out.
MeetsThresholdStrict(score, threshold) == score > threshold

\* `max_val >= self.confidence`, line 88; `result >= threshold`, line 113.
MeetsThreshold(score, threshold) == score >= threshold

\* cv2.minMaxLoc, line 83: the largest score, and the offsets that hold it
\* (which of several it reports is left to OpenCV).
max_val(frame) == CHOOSE v \in Scores : (\E i \in DOMAIN frame : frame[i] = v) /\ \A i \in DOMAIN frame : frame[i] <= v
max_locs(frame) == {i \in DOMAIN frame : frame[i] = max_val(frame)}

\* Lines 89-91 and 118-121: the centre of the template placed at an offset.
Centre(offset, shape) == <<offset[1] + shape[1] \div 2, offset[2] + shape[2] \div 2>>

\* find_template(screen, template_name), lines 71-94, for the frame whose
\* correlation result is `frame` and whose maximum is reported at offset i.
find_template(frame, name, i) ==
    IF name \notin DOMAIN templates THEN NotFound
    ELSE IF MeetsThreshold(max_val(frame), confidence)
           THEN Centre(Offsets[i], templates[name]) \o <<max_val(frame)>>
           ELSE NotFound

FindTemplateCall ==
    /\ NoSearchYet
    /\ \E frame \in Frames, name \in TemplateNames :
          \E i \in max_locs(frame) :
              /\ returned' = find_template(frame, name, i)
              /\ called' = [op |-> "find_template", name |-> name, frame |-> frame, at |-> i]
    /\ UNCHANGED <<config, limits, geometry, templates, confidence, files, supervisor, stats, pc,
                   locals, ghosts, observer_calls>>

\* `min_distance=20`, line 125, and a squared distance.
min_distance == 20
Dist2(a, b) == (a[1] - b[1]) * (a[1] - b[1]) + (a[2] - b[2]) * (a[2] - b[2])

\* A suppression that also drops a candidate exactly min_distance away.
IsDuplicateInclusive(match, existing, d) == Dist2(match, existing) <= d * d

\* `dist < min_distance`, lines 139-140; for whole coordinates the square
\* root is below d exactly when the squared distance is below d * d.
IsDuplicate(match, existing, d) == Dist2(match, existing) < d * d

\* A suppression that takes the candidates in the order they were found.
Unsorted(matches) == matches

\* `sorted(matches, key=lambda x: x[2], reverse=True)`, line 133: stable, so
\* candidates of equal confidence keep their order.
RECURSIVE sorted_matches(_)
sorted_matches(matches) ==
    IF matches = <<>> THEN <<>>
    ELSE LET m == matches[Len(matches)]
             head == sorted_matches(SubSeq(matches, 1, Len(matches) - 1))
             k == Cardinality({i \in DOMAIN head : head[i][3] >= m[3]})
         IN  SubSeq(head, 1, k) \o <<m>> \o SubSeq(head, k + 1, Len(head))

\* The loop of lines 136-144 over the sorted candidates.
RECURSIVE Filtered(_, _, _)
Filtered(rest, filtered, d) ==
    IF rest = <<>> THEN filtered
    ELSE IF \E j \in DOMAIN filtered : IsDuplicate(rest[1], filtered[j], d)
           THEN Filtered(Tail(rest), filtered, d)
           ELSE Filtered(Tail(rest), Append(filtered, rest[1]), d)

\* A suppression that keeps the best candidate and nothing else.
BestOnly(matches, d) ==
    IF matches = <<>> THEN <<>> ELSE <<sorted_matches(matches)[1]>>

\* _remove_duplicates(matches, min_distance), lines 127-146.
remove_duplicates(matches, d) ==
    IF matches = <<>> THEN <<>> ELSE Filtered(sorted_matches(matches), <<>>, d)

\* Lines 112-122 of find_all_matches: every offset that meets the threshold,
\* in np.where order, as (centre_x, centre_y, confidence).
RECURSIVE MatchesFrom(_, _, _, _)
MatchesFrom(frame, shape, threshold, i) ==
    IF i > Len(Offsets) THEN <<>>
    ELSE (IF MeetsThreshold(frame[i], threshold)
            THEN <<Centre(Offsets[i], shape) \o <<frame[i]>>>> ELSE <<>>)
         \o MatchesFrom(frame, shape, threshold, i + 1)

\* `min_conf: float = None`, line 96: an argument is <<>> or <<value>>.
NoMinConf == <<>>

\* find_all_matches(screen, template_name, min_conf), lines 96-125.
find_all_matches(frame, name, min_conf) ==
    IF name \notin DOMAIN templates THEN <<>>
    ELSE remove_duplicates(
             MatchesFrom(frame, templates[name],
                         IF min_conf # NoMinConf THEN min_conf[1] ELSE confidence, 1),
             min_distance)

FindAllMatches ==
    /\ NoSearchYet
    /\ \E frame \in Frames, name \in TemplateNames, min_conf \in {NoMinConf, <<MaxScore \div 2>>} :
          /\ returned' = find_all_matches(frame, name, min_conf)
          /\ called' = [op |-> "find_all_matches", name |-> name, frame |-> frame,
                        min_conf |-> min_conf]
    /\ UNCHANGED <<config, limits, geometry, templates, confidence, files, supervisor, stats, pc,
                   locals, ghosts, observer_calls>>

\* Candidate lists for one duplicate suppression: up to MaxMatches centres,
\* some of them exactly min_distance apart, some nearer, some farther.
Centres == {<<0, 0>>, <<10, 0>>, <<12, 16>>, <<20, 0>>, <<21, 0>>}
Candidates == {<<c[1], c[2], conf>> : c \in Centres, conf \in {MaxScore - 1, MaxScore}}
CandidateLists == UNION {[1..n -> Candidates] : n \in 0..MaxMatches}

RemoveDuplicates ==
    /\ NoSearchYet
    /\ \E matches \in CandidateLists :
          /\ returned' = remove_duplicates(matches, min_distance)
          /\ called' = [op |-> "remove_duplicates", matches |-> matches]
    /\ UNCHANGED <<config, limits, geometry, templates, confidence, files, supervisor, stats, pc,
                   locals, ghosts, observer_calls>>

\* SpecMatch: a ScreenCapture as constructed, any files behind the configured
\* templates and any threshold; the foreground loads, starts the run and
\* searches frames.
InitMatch ==
    /\ config = [FullConfig EXCEPT !.templates = TemplateNames]
    /\ limits = [threads |-> 1, detected |-> MaxDetected, purchased |-> MaxPurchased,
                 scan_pages |-> max_scroll_pages]
    /\ InitObject
    /\ GeometryIdle
    /\ templates = <<>>
    /\ confidence \in 0..MaxScore
    /\ files \in [TemplateNames -> FileStates]
    /\ called = [op |-> "none"]
    /\ returned = NotFound

NextMatch ==
    \/ LoadTemplate \/ LoadTemplates \/ FindTemplateCall \/ FindAllMatches
    \/ StartCall \/ StartReturn

SpecMatch == InitMatch /\ [][NextMatch]_vars

\* _remove_duplicates called once more, on the list it has just returned.
RemoveDuplicatesAgain ==
    /\ called.op = "remove_duplicates"
    /\ returned' = remove_duplicates(returned, min_distance)
    /\ called' = [op |-> "remove_duplicates_again", matches |-> returned,
                  first |-> called.matches]
    /\ UNCHANGED <<config, limits, geometry, templates, confidence, files, supervisor, stats, pc,
                   locals, ghosts, observer_calls>>

\* SpecDedup: one duplicate suppression over any list of candidates, and a
\* second one over its result.
InitDedup ==
    /\ config = FullConfig
    /\ limits = [threads |-> 1, detected |-> MaxDetected, purchased |-> MaxPurchased,
                 scan_pages |-> max_scroll_pages]
    /\ InitObject
    /\ GeometryIdle
    /\ DetectorsIdle

NextDedup == RemoveDuplicates \/ RemoveDuplicatesAgain

SpecDedup == InitDedup /\ [][NextDedup]_vars

\* ----------------------------------------------------------- text locator
\* The strings of the model, spelled out.
SEED == <<"s", "e", "e", "d">>
SEEDS == <<"s", "e", "e", "d", "s">>
POD == <<"p", "o", "d">>
PODS == <<"p", "o", "d", "s">>
BEAN == <<"b", "e", "a", "n">>
BEANS == <<"b", "e", "a", "n", "s">>
EGG == <<"e", "g", "g">>
EGGS == <<"e", "g", "g", "s">>
STOCK == <<"s", "t", "o", "c", "k">>
STOC == <<"s", "t", "o", "c">>
STOCK_UPPER == <<"S", "T", "O", "C", "K">>
CARROT == <<"c", "a", "r", "r", "o", "t">>
ARROT == <<"a", "r", "r", "o", "t">>
SEED_CAPITAL == <<"S", "e", "e", "d">>
AWBERRY == <<"a", "w", "b", "e", "r", "r", "y">>
STRAWBERRY_SEED == <<"S", "t", "r", "a", "w", "b", "e", "r", "r", "y", " ", "S", "e", "e", "d">>
CARROT_SEED == <<"C", "a", "r", "r", "o", "t", " ", "S", "e", "e", "d">>
NO_UPPER == <<"N", "O">>
NO_STOCK == <<"N", "O", " ", "S", "T", "O", "C", "K">>

\* A string is a sequence of one-character strings.
\* str.lower(), for the capitals the model's strings use.
ToLower == ("S" :> "s") @@ ("T" :> "t") @@ ("O" :> "o") @@ ("C" :> "c") @@ ("K" :> "k")
           @@ ("N" :> "n")
lower(text) == [i \in DOMAIN text |-> IF text[i] \in DOMAIN ToLower THEN ToLower[text[i]] ELSE text[i]]

\* str.strip(): without the blanks at either end.
RECURSIVE strip(_)
strip(text) ==
    IF text = <<>> THEN <<>>
    ELSE IF text[1] = " " THEN strip(Tail(text))
    ELSE IF text[Len(text)] = " " THEN strip(SubSeq(text, 1, Len(text) - 1))
    ELSE text

\* str.split(): the words between blanks.
RECURSIVE split(_)
split(text) ==
    IF text = <<>> THEN <<>>
    ELSE IF text[1] = " " THEN split(Tail(text))
    ELSE LET blanks == {i \in DOMAIN text : text[i] = " "}
             n == IF blanks = {} THEN Len(text) + 1
                  ELSE CHOOSE i \in blanks : \A j \in blanks : i <= j
         IN  <<SubSeq(text, 1, n - 1)>> \o split(SubSeq(text, n, Len(text)))

\* `a in b` for strings.
In(a, b) == \E i \in 0..(Len(b) - Len(a)) : SubSeq(b, i + 1, i + Len(a)) = a

\* " ".join(words).
RECURSIVE join(_)
join(words) ==
    IF words = <<>> THEN <<>>
    ELSE IF Len(words) = 1 THEN words[1]
    ELSE words[1] \o <<" ">> \o join(Tail(words))

Min2(a, b) == IF a <= b THEN a ELSE b

\* [word[start:] for start in range(1, stop) if len(word[start:]) >= 4]
Suffixes(word, stop) ==
    IF stop <= 1 THEN <<>>
    ELSE SelectSeq([start \in 1..(stop - 1) |-> SubSeq(word, start + 1, Len(word))],
                   LAMBDA p : Len(p) >= 4)

\* A pattern loop that drops at most two leading characters.
FuzzyStopShort(word) == Min2(3, Len(word) - 2)

\* `range(1, min(4, len(word) - 2))`, find_text line 192: its end.
FuzzyStop(word) == Min2(4, Len(word) - 2)

\* find_text lines 186-195: the fuzzy patterns of the words of a query.
RECURSIVE fuzzy_patterns(_)
fuzzy_patterns(search_words) ==
    IF search_words = <<>> THEN <<>>
    ELSE LET word == search_words[1]
         IN  (IF Len(word) >= 4 THEN <<word>> \o Suffixes(word, FuzzyStop(word)) ELSE <<>>)
             \o fuzzy_patterns(Tail(search_words))

\* An OCR token is [text, left, top, width, height]; its box and its text as
\* the loops read it.
Box(token) == <<token.left, token.top, token.width, token.height>>
TokenText(token) == lower(strip(token.text))

\* find_text lines 198-215: whether the single-word loop returns at a token.
SingleMatch(text, search_lower, patterns, fuzzy) ==
    /\ Len(text) >= 3
    /\ \/ In(search_lower, text)
       \/ In(text, search_lower)
       \/ /\ fuzzy
          /\ \E k \in DOMAIN patterns :
                \/ Len(patterns[k]) >= 4 /\ In(patterns[k], text)
                \/ Len(text) >= 4 /\ In(text, patterns[k])

\* find_text lines 218-227: the windows of consecutive tokens whose joined
\* text holds the query, as (window_size, i), and the box of one.
Windows(data, search_lower, search_words) ==
    {win \in (2..(Min2(Len(search_words) + 2, Len(data) + 1) - 1)) \X (0..Len(data)) :
        /\ win[2] + win[1] <= Len(data)
        /\ In(search_lower,
              lower(join([j \in 1..win[1] |-> strip(data[win[2] + j].text)])))}

WindowBox(data, win) ==
    LET span == (win[2] + 1)..(win[2] + win[1])
        last == data[win[2] + win[1]]
        x == data[win[2] + 1].left
    IN  <<x,
          CHOOSE y \in {data[j].top : j \in span} : \A j \in span : y <= data[j].top,
          (last.left + last.width) - x,
          CHOOSE h \in {data[j].height : j \in span} : \A j \in span : h >= data[j].height>>

\* find_text(screen, search_text, fuzzy), lines 155-229, for the frame whose
\* OCR data is `data`.
find_text(data, search_text, fuzzy) ==
    LET search_lower == lower(search_text)
        search_words == split(search_lower)
        patterns == IF fuzzy THEN fuzzy_patterns(search_words) ELSE <<>>
        hits == {i \in DOMAIN data : SingleMatch(TokenText(data[i]), search_lower, patterns, fuzzy)}
        wins == Windows(data, search_lower, search_words)
    IN  IF hits # {} THEN Box(data[CHOOSE i \in hits : \A j \in hits : i <= j])
        ELSE IF wins # {}
          THEN WindowBox(data, CHOOSE win \in wins : \A v \in wins :
                                   win[1] < v[1] \/ (win[1] = v[1] /\ win[2] <= v[2]))
        ELSE NotFound

\* text_exists(screen, search_text), lines 264-274: find_text with its default
\* fuzzy=True found something.
text_exists(data, search_text) == find_text(data, search_text, TRUE) # NotFound

\* find_shop_items_with_stock line 318.
common_words == {SEED, SEEDS, POD, PODS, BEAN, BEANS, EGG, EGGS}

\* `range(1, min(3, len(word) - 3))`, line 326: its end.
StockStop(word) == Min2(3, Len(word) - 3)

\* Lines 320-330: the patterns of one target.
RECURSIVE PatternsOfWords(_)
PatternsOfWords(words) ==
    IF words = <<>> THEN <<>>
    ELSE LET word == words[1]
         IN  (IF Len(word) >= 4 /\ word \notin common_words
                THEN <<word>> \o SelectSeq(Suffixes(word, StockStop(word)),
                                           LAMBDA p : p \notin common_words)
                ELSE <<>>)
             \o PatternsOfWords(Tail(words))

target_patterns(target) == PatternsOfWords(split(lower(target)))

\* Lines 302-307: the vertical centres of the tokens that hold the marker.
CentreY(token) == token.top + token.height \div 2
CentreX(token) == token.left + token.width \div 2
stock_positions(data) ==
    {CentreY(data[i]) : i \in {j \in DOMAIN data :
                                  In(STOCK, TokenText(data[j])) \/ In(STOC, TokenText(data[j]))}}

\* The row height of line 345.
row_distance == 60

\* A row test that takes the boundary in.
SameRowInclusive(stock_y, item_y) == Abs(stock_y - item_y) <= row_distance

\* `abs(stock_y - item_y) < 60`, line 345.
SameRow(stock_y, item_y) == Abs(stock_y - item_y) < row_distance

has_stock_on_line(data, item_y) == \E stock_y \in stock_positions(data) : SameRow(stock_y, item_y)

\* Lines 351-372: whether a token's text matches a target.
TextMatches(text, target) ==
    LET target_words == split(lower(target))
        first_word == IF target_words # <<>> THEN target_words[1] ELSE <<>>
        patterns == target_patterns(target)
    IN  \/ IF Len(first_word) = 4 THEN text = first_word
           ELSE Len(text) >= 5 /\ Len(first_word) >= 5 /\ (In(first_word, text) \/ In(text, first_word))
        \/ \E k \in DOMAIN patterns :
              \/ Len(patterns[k]) >= 5 /\ (In(patterns[k], text) \/ (Len(text) >= 5 /\ In(text, patterns[k])))
              \/ Len(patterns[k]) = 4 /\ text = patterns[k]

\* Lines 336-378: the items found from token i on.
RECURSIVE ItemsFrom(_, _, _)
ItemsFrom(data, targets, i) ==
    IF i > Len(data) THEN <<>>
    ELSE LET text == TokenText(data[i])
             matching == {k \in DOMAIN targets : TextMatches(text, targets[k])}
         IN  (IF /\ Len(text) >= 4
                 /\ has_stock_on_line(data, CentreY(data[i]))
                 /\ matching # {}
                THEN << <<targets[CHOOSE k \in matching : \A m \in matching : k <= m],
                          CentreX(data[i]), CentreY(data[i])>> >>
                ELSE <<>>)
             \o ItemsFrom(data, targets, i + 1)

\* find_shop_items_with_stock(screen, targets), lines 288-380.
find_shop_items_with_stock(data, targets) == ItemsFrom(data, targets, 1)

\* What pytesseract may read off a frame: up to MaxTokens tokens, the k-th at
\* left 100 * k, with these texts and tops (centres 100, 130, 159, 160, 270).
TokenTexts == {STOCK_UPPER, STOC, CARROT, ARROT, SEED_CAPITAL, AWBERRY, POD, NO_UPPER}
TokenTops == {90, 120, 149, 150, 260}
OcrData ==
    UNION {{[k \in 1..n |-> [text |-> f[k][1], left |-> 100 * k, top |-> f[k][2],
                             width |-> 40, height |-> 20]] :
               f \in [1..n -> TokenTexts \X TokenTops]} : n \in 0..MaxTokens}

\* The queries and the target lists tried.
Queries == {STRAWBERRY_SEED, SEED_CAPITAL, CARROT_SEED, POD, BEANS, AWBERRY, NO_STOCK}
TargetLists == {<<CARROT_SEED>>, <<SEED_CAPITAL>>, <<STRAWBERRY_SEED, CARROT_SEED>>,
                <<CARROT_SEED, SEED_CAPITAL>>}

FindText ==
    /\ called.op = "none"
    /\ \E data \in OcrData, search_text \in Queries, fuzzy \in BOOLEAN :
          /\ returned' = find_text(data, search_text, fuzzy)
          /\ called' = [op |-> "find_text", data |-> data, search_text |-> search_text,
                        fuzzy |-> fuzzy,
                        fuzzy_patterns |-> IF fuzzy THEN fuzzy_patterns(split(lower(search_text)))
                                           ELSE <<>>]
    /\ UNCHANGED <<config, limits, geometry, templates, confidence, files, supervisor, stats, pc,
                   locals, ghosts, observer_calls>>

FindShopItemsWithStock ==
    /\ called.op = "none"
    /\ \E data \in OcrData, targets \in TargetLists :
          /\ returned' = find_shop_items_with_stock(data, targets)
          /\ called' = [op |-> "find_shop_items_with_stock", data |-> data, targets |-> targets]
    /\ UNCHANGED <<config, limits, geometry, templates, confidence, files, supervisor, stats, pc,
                   locals, ghosts, observer_calls>>

TextExists ==
    /\ called.op = "none"
    /\ \E data \in OcrData, search_text \in Queries :
          /\ returned' = text_exists(data, search_text)
          /\ called' = [op |-> "text_exists", data |-> data, search_text |-> search_text]
    /\ UNCHANGED <<config, limits, geometry, templates, confidence, files, supervisor, stats, pc,
                   locals, ghosts, observer_calls>>

\* SpecText: one text search over any OCR reading of the model.
NextText == FindText \/ FindShopItemsWithStock \/ TextExists

SpecText == InitDedup /\ [][NextText]_vars

\* ------------------------------------------------------ colour-blob locator
\* `int(n * scale)` with `scale = (screen_w * screen_h) / (645 * 534)`, line
\* 449, for n a multiple of ten: the whole part of n * w * h / 344430, taken
\* through quotient and remainder by 34443 so that no product leaves 32 bits.
Scaled(n, screen_w, screen_h) ==
    LET tenth == n \div 10
        frame == screen_w * screen_h
        unit == (645 * BaselineHeight) \div 10
    IN  tenth * (frame \div unit) + (tenth * (frame % unit)) \div unit

\* `min_area = int(200 * scale)`, line 450.
min_area(screen_w, screen_h) == Scaled(200, screen_w, screen_h)

\* `max_area = int(20000 * scale)`, line 451.
max_area(screen_w, screen_h) == Scaled(20000, screen_w, screen_h)

\* `int(40 * (screen_w / 645))`, line 479.
min_width(screen_w) == (40 * screen_w) \div 645

\* A test that lets any bounding box wider than the minimum through.
AnyAspect(w, h) == TRUE

\* `aspect_ratio = w / h if h > 0 else 0` and the ratio part of line 481:
\* `aspect_ratio > 1.8 and aspect_ratio < 6.0`, in whole numbers.
WideRectangle(w, h) == h > 0 /\ 5 * w > 9 * h /\ w < 6 * h

\* Lines 474 and 481 for one contour [area, x, y, w, h].
IsButton(contour, screen_w, screen_h) ==
    /\ contour.area > min_area(screen_w, screen_h)
    /\ contour.area < max_area(screen_w, screen_h)
    /\ WideRectangle(contour.w, contour.h)
    /\ contour.w > min_width(screen_w)

\* The loop of lines 471-484: (center_x, center_y, area) of each contour kept.
RECURSIVE ButtonsFrom(_, _, _)
ButtonsFrom(contours, screen_w, screen_h) ==
    IF contours = <<>> THEN <<>>
    ELSE (IF IsButton(contours[1], screen_w, screen_h)
            THEN << <<contours[1].x + contours[1].w \div 2,
                      contours[1].y + contours[1].h \div 2,
                      contours[1].area>> >>
            ELSE <<>>)
         \o ButtonsFrom(Tail(contours), screen_w, screen_h)

\* find_green_buttons, lines 421-510, from the contours of the green mask on:
\* `buttons.sort(key=lambda b: b[2], reverse=True)` of line 497 is the stable
\* descending sort on the third field, and line 510 drops the area.
find_green_buttons(contours, screen_w, screen_h) ==
    LET buttons == sorted_matches(ButtonsFrom(contours, screen_w, screen_h))
    IN  [i \in DOMAIN buttons |-> <<buttons[i][1], buttons[i][2]>>]

\* Contours the green mask may produce on one frame.
MaxContours == 2

\* Bounding boxes: ratio 2.5, a square, ratio exactly 1.8, ratio exactly 6,
\* ratio just under 6, and ratio 2.5 at and just over the Mac minimum width.
BoxSizes == {<<50, 20>>, <<32, 32>>, <<36, 20>>, <<120, 20>>, <<119, 20>>,
             <<40, 16>>, <<45, 18>>, <<30, 0>>}

\* Contour areas: around the Mac window's two ends, inside it, and inside the
\* Windows window.
ContourAreas == {200, 201, 1000, 1002, 19999, 20000}

\* The k-th contour of a frame sits in its own column.
ContourLists ==
    UNION {[1..n -> {[area |-> a, w |-> s[1], h |-> s[2]] :
                        a \in ContourAreas, s \in BoxSizes}] : n \in 0..MaxContours}

Placed(shapes) ==
    [k \in DOMAIN shapes |-> [area |-> shapes[k].area, x |-> 200 * k, y |-> 100,
                               w |-> shapes[k].w, h |-> shapes[k].h]]

FindGreenButtons ==
    /\ called.op = "none"
    /\ \E shapes \in ContourLists, screen \in {DarwinRegion, WindowsRegion} :
          /\ returned' = find_green_buttons(Placed(shapes), screen[3], screen[4])
          /\ called' = [op |-> "find_green_buttons", contours |-> Placed(shapes),
                        screen_w |-> screen[3], screen_h |-> screen[4]]
    /\ UNCHANGED <<config, limits, geometry, templates, confidence, files, supervisor, stats, pc,
                   locals, ghosts, observer_calls>>

\* SpecBlob: one colour-blob search over any contours of the model.
SpecBlob == InitDedup /\ [][FindGreenButtons]_vars

\* ------------------------------------------------- targets of a category scan
EGG_CAPITAL == <<"E", "g", "g">>
POD_CAPITAL == <<"P", "o", "d">>
MYTHICAL_EGG == <<"M", "y", "t", "h", "i", "c", "a", "l", " ", "E", "g", "g">>
CACAO_POD == <<"C", "a", "c", "a", "o", " ", "P", "o", "d">>
FAVA_BEAN == <<"F", "a", "v", "a", " ", "B", "e", "a", "n">>
EGGPLANT_SEED == <<"E", "g", "g", "p", "l", "a", "n", "t", " ", "S", "e", "e", "d">>

\* Names a config.json may list under ocr_targets.
TargetNames == {CARROT_SEED, CACAO_POD, MYTHICAL_EGG, FAVA_BEAN, EGGPLANT_SEED}

\* Names in one ocr_targets list.
MaxTargets == 3

OcrTargetLists == UNION {[1..n -> TargetNames] : n \in 0..MaxTargets}

\* The conditions of lines 282 and 284: `"Seed" in t or "Pod" in t` for the
\* seed scan, `"Egg" in t` for the egg scan, on the name as configured.
InCategory(t, category) ==
    IF category = "seed" THEN In(SEED_CAPITAL, t) \/ In(POD_CAPITAL, t)
    ELSE In(EGG_CAPITAL, t)

\* Lines 280-284 of _buy_all_items_in_shop_with_scroll: the list `targets`.
RECURSIVE scan_targets(_, _)
scan_targets(ocr_targets, category) ==
    IF ocr_targets = <<>> THEN <<>>
    ELSE (IF InCategory(ocr_targets[1], category) THEN <<ocr_targets[1]>> ELSE <<>>)
         \o scan_targets(Tail(ocr_targets), category)

\* The seed scan of a cycle under shop_mode "both" builds its targets.
SeedTargets ==
    /\ called.op = "none"
    /\ \E ocr_targets \in OcrTargetLists :
          /\ returned' = scan_targets(ocr_targets, "seed")
          /\ called' = [op |-> "seed_targets", ocr_targets |-> ocr_targets]
    /\ UNCHANGED <<config, limits, geometry, templates, confidence, files, supervisor, stats, pc,
                   locals, ghosts, observer_calls>>

\* The egg scan of the same cycle builds its targets from the same list.
EggTargets ==
    /\ called.op = "seed_targets"
    /\ returned' = scan_targets(called.ocr_targets, "egg")
    /\ called' = [op |-> "egg_targets", ocr_targets |-> called.ocr_targets,
                  seed_targets |-> returned]
    /\ UNCHANGED <<config, limits, geometry, templates, confidence, files, supervisor, stats, pc,
                   locals, ghosts, observer_calls>>

\* SpecTargets: the two target lists of one cycle, for any ocr_targets.
NextTargets == SeedTargets \/ EggTargets

SpecTargets == InitDedup /\ [][NextTargets]_vars

\* ================================================================= claims
\* Steps at which the worker's next move is an input action, whatever the
\* flags are by then.
InputSteps == {"focus", "teleport", "open_shop", "item_click", "buy_click", "scroll"}

\* The messages with which the buy loop reports that no buy control is left.
SoldOutLogs == {"no_green_buttons", "no_buy_button"}

\* C1: one call of the per-item buy loop never clicks the buy control more
\* than max_buy_attempts times, every iteration it completes is one click and
\* one purchase, and it returns in one of three ways only: at the cap, with
\* exactly max_buy_attempts clicks and the "reached max attempts" warning;
\* before the cap because no valid buy control was found; or before the cap
\* because a flag check found the run stopped or paused.
C1_LoopStopsAtCap ==
    \A t \in Threads :
        /\ attempt[t] <= config.max_buy_attempts
        /\ loop_clicks[t] <= config.max_buy_attempts
        /\ pc[t] \in {"attempt", "buy_click"} => attempt[t] = loop_clicks[t] /\ attempt[t] = loop_events[t]
        /\ pc[t] = "after_buy" =>
              \/ lastlog[t] = "max_attempts" /\ loop_clicks[t] = config.max_buy_attempts
              \/ lastlog[t] \in SoldOutLogs /\ loop_clicks[t] < config.max_buy_attempts
              \/ cancel_seen[t] /\ lastlog[t] # "max_attempts" /\ loop_clicks[t] < config.max_buy_attempts

\* C1 witness: a buy loop has returned at the cap of two attempts, after two
\* buy clicks, with the warning logged.
C1_Witness ==
    \E t \in Threads :
        /\ pc[t] = "after_buy"
        /\ lastlog[t] = "max_attempts"
        /\ config.max_buy_attempts >= 2
        /\ loop_clicks[t] = config.max_buy_attempts

\* C2 (as claimed): when a captured frame first shows the sold-out text after
\* k buy clicks, k below the cap, the buy loop returns with exactly k clicks
\* and k purchases and without the cap warning.
C2_MarkerEndsLoopAfterK ==
    \A t \in Threads :
        (pc[t] = "after_buy" /\ marker_at[t] >= 0 /\ marker_at[t] < config.max_buy_attempts)
            => /\ loop_clicks[t] = marker_at[t]
               /\ loop_events[t] = marker_at[t]
               /\ lastlog[t] # "max_attempts"

\* A foreground step: the call or the return of a supervisor operation.
ForegroundStep == calls' # calls \/ fg' # fg

\* C3: start() called while running is True launches no thread and changes
\* no field of the object; no thread is ever launched while running is True,
\* so between a start() and the next stop() exactly one worker is launched:
\* the one _thread names.
C3_StartWhileRunningIsNoop ==
    [][/\ (calls' # calls /\ last_op' = "start_noop") =>
              /\ running
              /\ UNCHANGED <<running, paused, thread, game_region, stats, nthreads, pc>>
       /\ running => /\ nthreads' = nthreads
                     /\ thread' = thread
                     /\ thread = nthreads
                     /\ \A t \in Threads : pc[t] = "unstarted" => pc'[t] = "unstarted"]_vars

\* C3 witness: start() has been called a second time while running, and the
\* one worker launched is alive.
C3_Witness ==
    /\ last_op = "start_noop"
    /\ running
    /\ nthreads = 1
    /\ thread = 1
    /\ pc[1] \in CycleSteps

\* C4 (as claimed): at most one worker is inside the run loop's shop cycle.
C4_AtMostOneWorkerInCycle ==
    Cardinality({t \in Threads : pc[t] \in CycleSteps}) <= 1

\* C5: no call or return of start() or stop() changes items_detected,
\* items_purchased or last_detection_time, and every thread start() launches
\* is a new one: it has never run, and its id differs from that of every
\* worker launched before, the one stop() joined included.
C5_RestartKeepsStatsFreshWorker ==
    [][/\ ForegroundStep => UNCHANGED stats
       /\ nthreads' # nthreads =>
              /\ thread' = nthreads'
              /\ thread' \notin 1..nthreads
              /\ thread' # thread
              /\ pc[thread'] = "unstarted"
              /\ pc'[thread'] = "loop"]_vars

\* C5 witness: stop() then start() with non-zero stats: the second worker
\* has just been launched and the counters still hold the first one's work.
C5_Witness ==
    /\ last_op = "start"
    /\ nthreads = 2
    /\ thread = 2
    /\ pc[2] = "loop"
    /\ items_detected > 0
    /\ items_purchased > 0
    /\ last_detection_time # None

\* The lifecycle state the pair of flags stands for: paused is read only
\* while running is True.
RunState(r, p) == IF ~r THEN "Stopped" ELSE IF p THEN "Paused" ELSE "Running"

\* C6 (as claimed): the pair (running, paused) is never (False, True).
C6_PausedOnlyWhileRunning == running \/ ~paused

\* C6 (amended): with Stopped read as running = False whatever paused is, the
\* lifecycle state changes only Stopped -> Running by start(), Running <->
\* Paused by toggle_pause(), and Running or Paused -> Stopped by stop();
\* start() always leaves paused False.
C6_LifecycleTransitions ==
    [][LET before == RunState(running, paused)
           after == RunState(running', paused')
       IN  /\ before # after =>
                 \/ before = "Stopped" /\ after = "Running" /\ last_op' = "start"
                 \/ before = "Running" /\ after = "Paused" /\ last_op' = "toggle_pause"
                 \/ before = "Paused" /\ after = "Running" /\ last_op' = "toggle_pause"
                 \/ before \in {"Running", "Paused"} /\ after = "Stopped" /\ last_op' = "stop"
           /\ (before = after /\ calls' # calls) =>
                 \/ last_op' = "start_noop" /\ before # "Stopped"
                 \/ last_op' \in {"stop", "toggle_pause"} /\ before = "Stopped"]_vars

\* C6 witness: stop() was called while paused, the pair is (False, True), and
\* the lifecycle state is Stopped.
C6_Witness ==
    /\ last_op = "stop"
    /\ ~running
    /\ paused
    /\ RunState(running, paused) = "Stopped"

\* C7: when stop() has returned, running is False and _thread is None, even
\* with the worker still alive; and a live worker that finds running False
\* ends (or start() sets running again first), wherever it was: inside a shop
\* cycle, in the interval sleep or paused.
C7_StopEndsWorker ==
    /\ [](last_op = "stop" => ~running)
    /\ []((last_op = "stop" /\ fg = "idle") => thread = None)
    /\ \A t \in Threads :
          (~running /\ pc[t] \notin {"unstarted", "dead"}) ~> (pc[t] = "dead" \/ running)

\* C7 witness: stop() has returned with _thread None while the worker, paused
\* before the stop or not, is still inside a shop cycle.
C7_Witness ==
    /\ last_op = "stop"
    /\ fg = "idle"
    /\ thread = None
    /\ \E t \in Threads : pc[t] \in BuyLoopSteps

\* C8: toggle_pause() flips paused and changes nothing else (no worker ends
\* or moves); a worker at the loop test with paused set starts no shop cycle;
\* and a worker at the loop test after a resume starts a shop cycle, unless
\* the foreground stops or pauses it first.
C8_PauseKeepsWorker ==
    /\ [][/\ (calls' # calls /\ last_op' = "toggle_pause") =>
                 /\ paused' = ~paused
                 /\ UNCHANGED <<running, thread, nthreads, pc, stats>>
          /\ \A t \in Threads :
                 (paused /\ pc[t] = "loop") => pc'[t] \in {"loop", "dead"}]_vars
    /\ \A t \in Threads :
          (running /\ ~paused /\ last_op = "toggle_pause" /\ pc[t] = "loop")
              ~> (pc[t] \in {"focus", "teleport"} \/ ~running \/ paused)

\* C8 witness: start(), toggle_pause(), toggle_pause(): running, not paused,
\* and the one worker has entered a shop cycle.
C8_Witness ==
    /\ calls = 3
    /\ last_op = "toggle_pause"
    /\ running
    /\ ~paused
    /\ nthreads = 1
    /\ pc[1] \in {"focus", "teleport"}

\* C9 (as claimed): whenever a worker is about to issue an input action it
\* has re-read running/paused since its last input action or sleep, and no
\* flag check of its current cycle has found the run stopped or paused.
C9_InputOnlyAfterRecheck ==
    \A t \in Threads : pc[t] \in InputSteps => checked[t] /\ ~cancel_seen[t]

\* C10 (as claimed): with running False, a worker whose buy loop has returned
\* on finding the run cancelled is not about to issue any input action.
C10_NoInputAfterLoopReturns ==
    \A t \in Threads : (~running /\ cancel_seen[t]) => pc[t] \notin InputSteps

PaginationSteps == {"page", "item", "scroll", "after_buy"} \cup BuyLoopSteps

\* C12: in one call of the pagination loop, page p is scanned once and
\* scrolled once before page p + 1, whatever the scan returns (a scan that
\* finds nothing goes straight to the scroll); and, unless a step raises, the
\* call is left only after the scroll of page 25, or at a flag check that
\* finds running False or paused True.
C12_PaginationExhaustsBudget ==
    [][\A t \in Threads :
          /\ page[t] < max_scroll_pages
          /\ (pc[t] = "page" /\ pc'[t] # "page" /\ lastlog'[t] # "error" /\ ~Cancelled) =>
                 /\ pc'[t] \in {"item", "scroll"}
                 /\ page'[t] = page[t]
          /\ (pc[t] = "scroll" /\ pc'[t] # "scroll" /\ lastlog'[t] # "error"
                  /\ page[t] + 1 < max_scroll_pages) =>
                 /\ pc'[t] = "page"
                 /\ page'[t] = page[t] + 1
          /\ (pc[t] \in PaginationSteps /\ pc[t] # "scroll") => page'[t] \in {page[t], 0}
          /\ (pc[t] \in PaginationSteps /\ pc'[t] \notin PaginationSteps /\ lastlog'[t] # "error") =>
                 \/ pc[t] = "scroll" /\ page[t] + 1 = max_scroll_pages
                 \/ pc[t] \in {"page", "item"} /\ Cancelled
      ]_vars

\* C12 witness: running and not paused, no scan has found a row so far, and
\* the worker is about to make the 25th scroll of the seed shop.
C12_Witness ==
    /\ running
    /\ ~paused
    /\ items_detected = 0
    /\ \E t \in Threads :
          /\ pc[t] = "scroll"
          /\ shop_type[t] = "seed"
          /\ page[t] + 1 = max_scroll_pages

\* C13 (as claimed): a worker is never about to click a buy control, nor
\* counting a purchase, in a buy-loop call one of whose captured frames has
\* shown the sold-out text: the loop stops at the frame showing the marker.
C13_MarkerStopsBeforeClick ==
    \A t \in Threads : pc[t] \in {"buy_click", "buy_count"} => marker_at[t] = -1

\* C14: an attempt that finds no green button, or none passing the position
\* filter, makes the buy loop return with no click and items_purchased as it
\* was; the page scan then goes on (re-capture, line 312) to the next row of
\* the page when one is left, else to the scroll and the next page.
C14_NoControlEndsLoopOnly ==
    [][\A t \in Threads :
          /\ (pc[t] = "attempt" /\ lastlog'[t] \in SoldOutLogs) =>
                 /\ pc'[t] = "after_buy"
                 /\ items_purchased' = items_purchased
                 /\ loop_clicks'[t] = loop_clicks[t]
                 /\ UNCHANGED <<shop_items, page, shop_type>>
          /\ pc[t] = "after_buy" => shop_items[t] >= 1
          /\ (pc[t] = "after_buy" /\ lastlog[t] \in SoldOutLogs /\ pc'[t] # "after_buy"
                  /\ lastlog'[t] # "error") =>
                 /\ pc'[t] = (IF shop_items[t] > 1 THEN "item" ELSE "scroll")
                 /\ shop_items'[t] = shop_items[t] - 1
                 /\ UNCHANGED <<page, shop_type, items_purchased>>
      ]_vars

\* C14 witness: the buy loop of the first of two rows has returned for want
\* of a buy control, with no click made, and the worker is at the flag check
\* before the second row.
C14_Witness ==
    \E t \in Threads :
        /\ pc[t] = "item"
        /\ lastlog[t] \in SoldOutLogs
        /\ shop_items[t] = 1
        /\ items_detected = 1
        /\ items_purchased = 0

\* C15 (as claimed): a shop cycle in which no flag check found the run
\* stopped or paused completes only out of the last scroll of the paginated
\* scan of its last enabled category (egg for 'egg' and 'both', given that
\* the frame captured at line 230 showed the "Open Egg Shop" button; seed
\* for 'seed'), and goes from the seed shop on to the egg part only out of
\* the last scroll of the seed scan.
C15_EnabledCategoriesScanned ==
    [][\A t \in Threads :
          /\ (/\ lastlog'[t] = "cycle_complete"
              /\ lastlog[t] # "cycle_complete"
              /\ ~cancel_seen'[t]
              /\ (EggEnabled => egg_seen'[t])) =>
                 /\ pc[t] = "scroll"
                 /\ page[t] + 1 = max_scroll_pages
                 /\ shop_type[t] = (IF EggEnabled THEN "egg" ELSE "seed")
          /\ (/\ pc'[t] = "egg_search"
              /\ pc[t] # "egg_search"
              /\ SeedEnabled
              /\ ~cancel_seen'[t]) =>
                 /\ pc[t] = "scroll"
                 /\ page[t] + 1 = max_scroll_pages
                 /\ shop_type[t] = "seed"
      ]_vars

\* The navigation steps of a shop cycle, lines 196-211.
NavigationSteps == {"focus", "teleport", "open_shop"}

\* C16: a worker enters a shop cycle only from the loop test and only at its
\* first navigation step (the focus click with a region, else the teleport
\* hotkey); the teleport follows the focus click or the entry, the open-shop
\* key the teleport; a page scan is entered only from the open-shop key (seed)
\* or from the egg-shop key, which comes after the seed scan when both are
\* enabled; and outside the scans, so after a completed, failed or aborted
\* cycle, the page, the rows and the category are back at their start values.
C16_CycleStartsAtNavigation ==
    [][\A t \in Threads :
          /\ (pc[t] \notin CycleSteps /\ pc'[t] \in CycleSteps) =>
                 /\ pc[t] = "loop"
                 /\ pc'[t] = (IF game_region = NoRegion THEN "teleport" ELSE "focus")
          /\ (pc'[t] = "teleport" /\ pc[t] # "teleport") =>
                 (pc[t] = "focus" \/ (pc[t] = "loop" /\ game_region = NoRegion))
          /\ (pc'[t] = "open_shop" /\ pc[t] # "open_shop") => pc[t] = "teleport"
          /\ (pc'[t] \in PaginationSteps /\ pc[t] \notin PaginationSteps) =>
                 /\ pc'[t] = "page"
                 /\ page'[t] = 0
                 /\ \/ pc[t] = "open_shop" /\ shop_type'[t] = "seed"
                    \/ pc[t] = "egg_open" /\ shop_type'[t] = "egg"
          /\ (pc'[t] = "egg_search" /\ pc[t] # "egg_search") =>
                 \/ pc[t] = "open_shop" /\ ~SeedEnabled
                 \/ pc[t] \in {"page", "item", "scroll"} /\ shop_type[t] = "seed"
          /\ (pc'[t] = "egg_open" /\ pc[t] # "egg_open") => pc[t] = "egg_search"
          /\ pc[t] \notin PaginationSteps =>
                 /\ page[t] = 0
                 /\ shop_items[t] = 0
                 /\ attempt[t] = 0
                 /\ shop_type[t] = "none"
      ]_vars

\* C16 witness: after start(), a pause and a resume, with a row detected by
\* an earlier cycle, the worker has entered a new cycle and is at a navigation
\* step with the page, the rows and the category at their start values.
C16_Witness ==
    /\ calls = 3
    /\ last_op = "toggle_pause"
    /\ running
    /\ ~paused
    /\ items_detected > 0
    /\ \E t \in Threads :
          /\ pc[t] \in NavigationSteps
          /\ page[t] = 0
          /\ shop_items[t] = 0
          /\ shop_type[t] = "none"

\* The origin of the capture region on the screen; (0, 0) with no region.
OriginX == IF region = NoRegion THEN 0 ELSE region[1]
OriginY == IF region = NoRegion THEN 0 ELSE region[2]

\* C17: the point of the item click is the row's frame-local position plus
\* the region's origin, and the point of the buy click is the frame-local
\* centre of one of the detected buttons plus the region's origin; with no
\* region both are the frame-local positions themselves.
C17_ClicksAreTranslated ==
    /\ click_pc \in {"attempt", "returned"} =>
           clicked = <<item_pos[1] + OriginX, item_pos[2] + OriginY>>
    /\ click_pc = "bought" =>
           \E i \in 1..Len(green_buttons) :
               /\ IsValidButton(green_buttons[i], item_pos, region)
               /\ clicked = <<green_buttons[i][1] + OriginX, green_buttons[i][2] + OriginY>>
    /\ (region = NoRegion /\ click_pc \in {"attempt", "returned"}) => clicked = item_pos

\* C17 witness: with a region whose origin is not (0, 0), the row has been
\* clicked and then a buy control, at a point that is no frame-local centre.
C17_Witness ==
    /\ click_pc = "bought"
    /\ region # NoRegion
    /\ \A i \in 1..Len(green_buttons) : clicked # green_buttons[i]

\* Whether a button centre lies in the window below the row: y above the
\* row's, by less than floor(150 * height / 534), and x within
\* floor(200 * height / 534) of the row's (150 and 200 with no region).
InWindow(b) ==
    LET h == IF region = NoRegion THEN 534 ELSE region[4]
    IN  /\ b[2] > item_pos[2]
        /\ b[2] < item_pos[2] + (150 * h) \div 534
        /\ b[1] - item_pos[1] < (200 * h) \div 534
        /\ item_pos[1] - b[1] < (200 * h) \div 534

\* C19: the button that is clicked lies in the window and no button in the
\* window is nearer to the row vertically; the loop returns without a buy
\* click exactly when no detected button lies in the window.
C19_NearestButtonInWindow ==
    /\ click_pc = "bought" =>
           \E i \in 1..Len(green_buttons) :
               /\ clicked = <<green_buttons[i][1] + OriginX, green_buttons[i][2] + OriginY>>
               /\ InWindow(green_buttons[i])
               /\ \A j \in 1..Len(green_buttons) :
                      InWindow(green_buttons[j]) =>
                          green_buttons[i][2] - item_pos[2] <= green_buttons[j][2] - item_pos[2]
    /\ click_pc = "returned" => \A j \in 1..Len(green_buttons) : ~InWindow(green_buttons[j])

\* C19 witness: two buttons in the window of a scaled region, the nearer one
\* second in the list, and the nearer one clicked.
C19_Witness ==
    /\ click_pc = "bought"
    /\ region = WindowsRegion
    /\ Len(green_buttons) = 2
    /\ InWindow(green_buttons[1])
    /\ InWindow(green_buttons[2])
    /\ green_buttons[2][2] < green_buttons[1][2]
    /\ green_buttons[1][2] - item_pos[2] > 150
    /\ clicked = <<green_buttons[2][1] + OriginX, green_buttons[2][2] + OriginY>>

\* C18 (as claimed): a worker about to click a row's position has captured
\* no frame since the scan that produced that position.
C18_PositionsFromLatestFrame ==
    \A t \in Threads : pc[t] = "item_click" => rows_fresh[t]

\* C20 (as claimed): whenever no worker is between a buy click and the
\* increment that follows it, items_purchased is the number of buy-control
\* clicks issued since construction.
C20_PurchasedEqualsClicks ==
    (\A t \in Threads : pc[t] # "buy_count") => items_purchased = buy_clicks

\* C21: running and paused change only in a step of the foreground that
\* calls start(), stop() or toggle_pause(); every step of a worker (one that
\* moves a worker, logs, or changes a local or a counter) leaves both as
\* they were.
C21_FlagsWrittenBySupervisorOnly ==
    [][/\ (running' # running \/ paused' # paused) =>
              /\ calls' = calls + 1
              /\ last_op' \in {"start", "stop", "toggle_pause"}
       /\ (pc' # pc \/ locals' # locals \/ stats' # stats \/ lastlog' # lastlog) =>
              (pc # pc' /\ fg' = "start_sleep" /\ fg = "idle") \/ UNCHANGED flags
      ]_vars

\* C21 witness: paused by toggle_pause() while running, and a worker whose
\* shop cycle has raised since: both flags are as the supervisor left them.
C21_Witness ==
    /\ last_op = "toggle_pause"
    /\ running
    /\ paused
    /\ \E t \in Threads : lastlog[t] = "error" /\ pc[t] = "loop"

\* C22 (as claimed): no step lowers items_detected or items_purchased, and
\* so none returns either to zero once it has counted.
C22_CountersNeverDecrease ==
    [][items_detected' >= items_detected /\ items_purchased' >= items_purchased]_vars

\* C23 (as claimed): no observer is ever invoked on the foreground thread.
C23_ObserversOnWorkerOnly ==
    \A o \in Observers : "foreground" \notin observer_calls[o]

\* C23 (amended): the detection and purchase observers are invoked on a
\* worker thread only; the status observer is invoked on the foreground
\* thread too, by the _log calls of start(), stop() and toggle_pause(), from
\* the first such call that gets past the guard of start().
C23_DetectionAndPurchaseOnWorkerOnly ==
    /\ observer_calls["on_detection"] \subseteq {"worker"}
    /\ observer_calls["on_purchase"] \subseteq {"worker"}
    /\ "foreground" \in observer_calls["on_status_change"] <=> calls > 0

\* C23 witness: each observer has been invoked by a worker, and the status
\* observer by the foreground as well, in toggle_pause().
C23_Witness ==
    /\ last_op = "toggle_pause"
    /\ observer_calls["on_detection"] = {"worker"}
    /\ observer_calls["on_purchase"] = {"worker"}
    /\ observer_calls["on_status_change"] = {"foreground", "worker"}

\* C24: load_template for a missing or unreadable file returns False and
\* leaves the registry as it was; load_templates then returns False, registers
\* the readable templates only, and start() can still be called; find_template
\* and find_all_matches for a name that is not registered return None and the
\* empty list, whatever the frame.
C24_MissingTemplateDegrades ==
    /\ (called.op = "load_template" /\ files[called.name] # "image") =>
           /\ returned = FALSE
           /\ templates = called.before
    /\ (called.op = "load_templates" /\ \E n \in config.templates : files[n] # "image") =>
           /\ returned = FALSE
           /\ DOMAIN templates = DOMAIN called.before \cup {n \in config.templates : files[n] = "image"}
           /\ (~running /\ CanCall) => ENABLED StartCall
    /\ (called.op = "find_template" /\ called.name \notin DOMAIN templates) => returned = NotFound
    /\ (called.op = "find_all_matches" /\ called.name \notin DOMAIN templates) => returned = <<>>

\* C24 witness: a template file was missing, load_templates() failed, the run
\* was started all the same, and a search for the missing template found
\* nothing in a frame that matches everywhere.
C24_Witness ==
    /\ files["open_egg_shop"] = "missing"
    /\ running
    /\ called.op = "find_template"
    /\ called.name = "open_egg_shop"
    /\ \A i \in DOMAIN called.frame : called.frame[i] = MaxScore
    /\ DOMAIN templates = {"buy_button"}
    /\ returned = NotFound

\* C25: for a registered template find_template returns a match exactly when
\* some score of the frame is at or above the threshold (a score equal to the
\* threshold counts); the match carries the largest score of the frame and
\* the centre of the template at an offset that holds it; a frame with a
\* pixel-identical copy (score MaxScore) gives a match at every threshold.
C25_BestMatchAtOrAboveThreshold ==
    (called.op = "find_template" /\ called.name \in DOMAIN templates) =>
        LET frame == called.frame
            at == Offsets[called.at]
        IN  /\ returned # NotFound <=> \E i \in DOMAIN frame : frame[i] >= confidence
            /\ returned # NotFound =>
                  /\ returned[3] = frame[called.at]
                  /\ \A i \in DOMAIN frame : frame[i] <= returned[3]
                  /\ returned[1] = at[1] + Shape(called.name)[1] \div 2
                  /\ returned[2] = at[2] + Shape(called.name)[2] \div 2
            /\ (\E i \in DOMAIN frame : frame[i] = MaxScore) =>
                  (returned # NotFound /\ returned[3] = MaxScore)

\* C25 witness: the best score of the frame equals the threshold, below a
\* perfect match, and find_template reports it, centred on the second offset.
C25_Witness ==
    /\ called.op = "find_template"
    /\ called.name = "buy_button"
    /\ called.name \in DOMAIN templates
    /\ confidence = MaxScore - 1
    /\ called.frame = <<0, MaxScore - 1, 1>>
    /\ returned = <<24, 2, MaxScore - 1>>

\* The first candidate of the largest confidence, in the order found.
BestIndex(matches) ==
    CHOOSE i \in DOMAIN matches :
        /\ \A j \in DOMAIN matches : matches[j][3] <= matches[i][3]
        /\ \A j \in 1..(i - 1) : matches[j][3] < matches[i][3]

\* C26 (as claimed): when every candidate lies less than min_distance from
\* one position, the suppression returns one match, of the largest confidence.
C26_OneMatchPerPosition ==
    (/\ called.op = "remove_duplicates"
     /\ called.matches # <<>>
     /\ \E p \in Centres : \A i \in DOMAIN called.matches :
            Dist2(called.matches[i], p) < min_distance * min_distance) =>
        /\ Len(returned) = 1
        /\ returned[1][3] = called.matches[BestIndex(called.matches)][3]

\* C26 (amended): when every candidate lies less than min_distance from the
\* candidate of the largest confidence (the first found, if several share
\* it), the suppression returns that candidate and nothing else.
C26_OneMatchAroundBest ==
    (/\ called.op = "remove_duplicates"
     /\ called.matches # <<>>
     /\ \A i \in DOMAIN called.matches :
            Dist2(called.matches[i], called.matches[BestIndex(called.matches)])
                < min_distance * min_distance) =>
        returned = <<called.matches[BestIndex(called.matches)]>>

\* C26 witness: three candidates around the best one, which was found second.
C26_Witness ==
    /\ called.op = "remove_duplicates"
    /\ called.matches = << <<0, 0, MaxScore - 1>>, <<10, 0, MaxScore>>, <<12, 16, MaxScore - 1>> >>
    /\ returned = << <<10, 0, MaxScore>> >>

\* C27 (as claimed): any two matches returned are more than min_distance
\* apart.
C27_PairsFartherThanMinDistance ==
    called.op = "remove_duplicates" =>
        \A i, j \in DOMAIN returned :
            i # j => Dist2(returned[i], returned[j]) > min_distance * min_distance

\* C27 (amended): the matches returned are candidates, in descending order of
\* confidence, any two at least min_distance apart; a candidate is left out
\* only when it is nearer than min_distance to a returned match of at least
\* its confidence, so a candidate exactly min_distance from the matches kept
\* before it is kept.
C27_PairsAtLeastMinDistance ==
    called.op = "remove_duplicates" =>
        /\ \A i \in DOMAIN returned : \E k \in DOMAIN called.matches : called.matches[k] = returned[i]
        /\ \A i, j \in DOMAIN returned : i < j =>
              /\ returned[i][3] >= returned[j][3]
              /\ Dist2(returned[i], returned[j]) >= min_distance * min_distance
        /\ \A k \in DOMAIN called.matches :
              \/ \E i \in DOMAIN returned : returned[i] = called.matches[k]
              \/ \E i \in DOMAIN returned :
                    /\ returned[i][3] >= called.matches[k][3]
                    /\ Dist2(returned[i], called.matches[k]) < min_distance * min_distance

\* C27 witness: the second match kept is exactly min_distance from the first,
\* and the third candidate is dropped for being nearer than that to it.
C27_Witness ==
    /\ called.op = "remove_duplicates"
    /\ called.matches = << <<12, 16, MaxScore - 1>>, <<0, 0, MaxScore>>, <<20, 0, MaxScore - 1>> >>
    /\ returned = << <<0, 0, MaxScore>>, <<12, 16, MaxScore - 1>> >>

\* The strings of a sequence, as a set.
Elements(seq) == {seq[i] : i \in DOMAIN seq}

\* C28: find_text with fuzzy matching finds the query "Strawberry Seed" in a
\* reading whose only token is "awberry", and returns that token's box; the
\* fuzzy patterns of a query are, for each of its words of four characters or
\* more, the word and those of its suffixes that drop one to three leading
\* characters and keep four or more, and nothing else.
C28_FuzzyPatternsAndClippedToken ==
    (called.op = "find_text" /\ called.fuzzy) =>
        /\ (/\ called.search_text = STRAWBERRY_SEED
            /\ Len(called.data) = 1
            /\ called.data[1].text = AWBERRY) => returned = Box(called.data[1])
        /\ Elements(called.fuzzy_patterns) =
              UNION {{SubSeq(word, drop + 1, Len(word)) :
                         drop \in {d \in 0..3 : Len(word) - d >= 4}} :
                     word \in {u \in Elements(split(lower(called.search_text))) : Len(u) >= 4}}

\* C28 witness: the query "Strawberry Seed", fuzzy, over the single token
\* "awberry", whose box is returned.
C28_Witness ==
    /\ called.op = "find_text"
    /\ called.fuzzy
    /\ called.search_text = STRAWBERRY_SEED
    /\ Len(called.data) = 1
    /\ called.data[1].text = AWBERRY
    /\ called.data[1].top = 120
    /\ returned = <<100, 120, 40, 20>>
    /\ AWBERRY \in Elements(called.fuzzy_patterns)

\* C29 (as claimed): whatever the targets, a token that reads as a category
\* word is never reported by find_shop_items_with_stock.
C29_NoMatchOnCategoryWord ==
    called.op = "find_shop_items_with_stock" =>
        \A i \in DOMAIN called.data :
            lower(strip(called.data[i].text)) \in {SEED, SEEDS, POD, PODS, BEAN, BEANS, EGG, EGGS} =>
                \A r \in DOMAIN returned :
                    <<returned[r][2], returned[r][3]>> #
                        <<called.data[i].left + called.data[i].width \div 2,
                          called.data[i].top + called.data[i].height \div 2>>

\* Whether the reading holds a stock marker whose vertical centre is at a
\* distance from that of token i that satisfies Near.
MarkerAt(data, i, Near(_)) ==
    \E j \in DOMAIN data :
        /\ lower(strip(data[j].text)) \in {STOCK, STOC}
        /\ Near(Abs((data[j].top + data[j].height \div 2) - (data[i].top + data[i].height \div 2)))

\* Whether the token i, a reading of "carrot", is returned for "Carrot Seed".
CarrotReturned(data, i, items) ==
    \E r \in DOMAIN items :
        items[r] = <<CARROT_SEED, data[i].left + data[i].width \div 2,
                     data[i].top + data[i].height \div 2>>

ContourAt(point) ==
    CHOOSE k \in DOMAIN called.contours :
        point = <<called.contours[k].x + called.contours[k].w \div 2,
                  called.contours[k].y + called.contours[k].h \div 2>>

\* C31: find_green_buttons returns exactly the contours whose area lies
\* strictly inside the scaled window (200 to 20000 times the frame's area over
\* 645 x 534), whose bounding box has width/height above 1.8 and below 6.0 and
\* whose width exceeds 40 times the frame's width over 645; each is returned
\* once, as its centre, and the centres are in descending order of area.
C31_GreenButtonsFilteredAndSorted ==
    called.op = "find_green_buttons" =>
        LET cs == called.contours
            passing == {k \in DOMAIN cs :
                          /\ cs[k].area > Scaled(200, called.screen_w, called.screen_h)
                          /\ cs[k].area < Scaled(20000, called.screen_w, called.screen_h)
                          /\ cs[k].h > 0
                          /\ 10 * cs[k].w > 18 * cs[k].h
                          /\ cs[k].w < 6 * cs[k].h
                          /\ cs[k].w > (40 * called.screen_w) \div 645}
        IN  /\ Len(returned) = Cardinality(passing)
            /\ {ContourAt(returned[i]) : i \in DOMAIN returned} = passing
            /\ \A i, j \in DOMAIN returned :
                  i < j => cs[ContourAt(returned[i])].area >= cs[ContourAt(returned[j])].area

\* A ratio-2.5 rectangle and a square of the same area on the Mac frame: only
\* the rectangle comes back.
C31_Witness ==
    /\ called.op = "find_green_buttons"
    /\ called.screen_w = 645
    /\ Len(called.contours) = 2
    /\ called.contours[1].area = called.contours[2].area
    /\ <<called.contours[1].w, called.contours[1].h>> = <<32, 32>>
    /\ <<called.contours[2].w, called.contours[2].h>> = <<50, 20>>
    /\ returned = << <<200 * 2 + 25, 100 + 10>> >>

\* A step in which worker t sends an input: it leaves a step of InputSteps
\* (the focus click is sent only when a region is set, line 196).
SendsInput(t) ==
    /\ pc[t] \in InputSteps
    /\ pc'[t] # pc[t]
    /\ pc[t] = "focus" => game_region # NoRegion

\* C32: no worker sends an input (focus click, teleport hotkey, key press,
\* scroll, buy click) while start() is still waiting out its startup delay.
C32_NoInputDuringStartupDelay ==
    [][fg = "start_sleep" => \A t \in Threads : ~SendsInput(t)]_vars

\* C33: every buy loop counts its item once, before any buy click, and at most
\* max_buy_attempts purchases after it, so the purchases counted never exceed
\* max_buy_attempts times the detections counted.
C33_PurchasesBoundedByDetections ==
    items_purchased <= config.max_buy_attempts * items_detected

\* C34: with both scans run, every name of ocr_targets is among the targets of
\* exactly one of them: none is left out of both, none is taken by both.
C34_EveryTargetInExactlyOneScan ==
    called.op = "egg_targets" =>
        \A i \in DOMAIN called.ocr_targets :
            (called.ocr_targets[i] \in Elements(called.seed_targets))
                # (called.ocr_targets[i] \in Elements(returned))

\* C35: text_exists(frame, 'NO STOCK') is True only if one token, or a run of
\* consecutive tokens joined by blanks, reads 'no stock' somewhere in it: a
\* frame with 'STOCK' and no 'NO' before it is not reported as sold out.
C35_NoStockOnlyOnSoldOutPhrase ==
    (called.op = "text_exists" /\ called.search_text = NO_STOCK /\ returned = TRUE) =>
        \E i, j \in DOMAIN called.data :
            /\ i <= j
            /\ In(<<"n", "o", " ", "s", "t", "o", "c", "k">>,
                  lower(join([k \in 1..(j - i + 1) |-> strip(called.data[i + k - 1].text)])))

\* C36: every shop cycle ends. Whatever the detectors report and whatever the
\* flags are, a worker inside _shop_cycle leaves it (by return, or by an
\* exception into the handler of the run loop), and on the way it is never
\* past the 25th page of a category, the 10th step of the egg-shop search or
\* the max_buy_attempts-th buy click of an item.
C36_ShopCycleTerminates ==
    /\ [](\A t \in Threads :
             /\ page[t] < max_scroll_pages
             /\ scroll_attempt[t] < max_scroll_attempts
             /\ loop_clicks[t] <= config.max_buy_attempts)
    /\ \A t \in Threads : (pc[t] \in CycleSteps) ~> (pc[t] \notin CycleSteps)

\* C36 witness: after buy clicks up to the cap of a buy loop, a cycle has
\* searched for the egg-shop button, not found it, and returned with "Shop
\* cycle complete".
C36_Witness ==
    \E t \in Threads :
        /\ pc[t] = "interval"
        /\ lastlog[t] = "cycle_complete"
        /\ config.max_buy_attempts >= 2
        /\ buy_clicks >= config.max_buy_attempts

=============================================================================
